---- MODULE Spec2Model ----
(***************************************************************************)
(* Shopping-list server: the relational store, the magic-link / invitation *)
(* / JWT authentication services, the list and membership service, the    *)
(* setup service and the HTTP handlers in front of them.                   *)
(*                                                                         *)
(* Each service method is an operator from a store value (and its inputs)  *)
(* to a result record holding the store after the call; each HTTP handler  *)
(* is one action that applies the services in the order of its code.       *)
(*                                                                         *)
(* Time is counted in units of 15 minutes.  Identifiers produced by        *)
(* uuid.New() are drawn from counters that never repeat a value.  Strings  *)
(* that the code inspects (names, codes, headers) are tuples of pieces.    *)
(***************************************************************************)
EXTENDS Integers, Sequences, FiniteSets, TLC

VARIABLES
    db,        \* the store
    now,       \* the clock
    ticks,     \* how often the clock has advanced
    fresh,     \* the next unused identifier of each kind, and the login requests so far
    resp,      \* the last request and its response
    verified,  \* history: the (email, code) pairs that verified successfully
    tokens,    \* the session tokens the server has issued
    inflight   \* per connection: the request being served and where its handler stands

vars == <<db, now, ticks, fresh, resp, verified, tokens, inflight>>

---------------------------------------------------------------------------
(* Bounds of the model *)

NumEmails == 2
MaxLists == 3
MaxInvitations == 2
MaxItems == 1
MaxLogins == 2
MaxTicks == 2
MaxRequests == 2

(* Program constants, in units of 15 minutes *)

MagicLinkTTL == 1
InvitationTTL == 672
JWTTTL == 2880

NULL == -1

Emails == 1..NumEmails
ListIDs == 1..MaxLists
InvitationIDs == 1..MaxInvitations
ItemIDs == 1..MaxItems

NoErr == "ok"

JWTSecret == "server-secret"

DefaultListName == <<"My Shopping List">>

ListNames == {<<>>, <<" ">>, <<" ", "Groceries">>}

ItemNames == {<<"Milk">>, <<"Eggs">>}

ItemTags == {<<>>, <<"[\"dairy\"]">>}

(* The request bodies of POST /invitations that the model sends *)
InvitationRequests ==
    {[email |-> e, type |-> "server", list_id |-> NULL] : e \in Emails}
        \cup {[email |-> e, type |-> "list", list_id |-> l] :
                e \in Emails, l \in ListIDs \cup {NULL}}
        \cup {[email |-> 1, type |-> "admin", list_id |-> NULL]}

(* The address the operator gives to the setup command *)
SetupEmails == {1}

RandomBytes3 == {<<0, 0, 1>>, <<18, 214, 135>>}

RandomBytes4 == {<<171, 205, 0, 1>>, <<0, 0, 0, 255>>}

---------------------------------------------------------------------------
(* Strings *)

IsSpace(c) == c = " "

RECURSIVE TrimLeft(_)
TrimLeft(s) == IF s # <<>> /\ IsSpace(Head(s)) THEN TrimLeft(Tail(s)) ELSE s

RECURSIVE TrimRight(_)
TrimRight(s) ==
    IF s # <<>> /\ IsSpace(s[Len(s)]) THEN TrimRight(SubSeq(s, 1, Len(s) - 1)) ELSE s

(* Variant of TrimSpace that removes nothing *)
KeepSpace(s) == s

TrimSpace(s) == TrimRight(TrimLeft(s))

RECURSIVE Decimal(_)
Decimal(n) == IF n < 10 THEN <<n>> ELSE Append(Decimal(n \div 10), n % 10)

RECURSIVE PadZero(_, _)
PadZero(s, w) == IF Len(s) >= w THEN s ELSE PadZero(<<0>> \o s, w)

HexDigits == <<"0", "1", "2", "3", "4", "5", "6", "7", "8", "9", "A", "B", "C", "D", "E", "F">>

HexByte(b) == <<HexDigits[(b \div 16) + 1], HexDigits[(b % 16) + 1]>>

RECURSIVE SprintfX(_)
SprintfX(bytes) == IF bytes = <<>> THEN <<>> ELSE HexByte(Head(bytes)) \o SprintfX(Tail(bytes))

LowerOf(c) ==
    CASE c = "A" -> "a" [] c = "B" -> "b" [] c = "C" -> "c"
      [] c = "D" -> "d" [] c = "E" -> "e" [] c = "F" -> "f" [] OTHER -> c

UpperOf(c) ==
    CASE c = "a" -> "A" [] c = "b" -> "B" [] c = "c" -> "C"
      [] c = "d" -> "D" [] c = "e" -> "E" [] c = "f" -> "F" [] OTHER -> c

ToUpper(s) == [i \in 1..Len(s) |-> UpperOf(s[i])]

---------------------------------------------------------------------------
(* The store: one set of rows per table *)

EmptyDB ==
    [users |-> {}, magic_links |-> {}, invitations |-> {}, lists |-> {},
     members |-> {}, items |-> {}, settings |-> {}]

NoUser == [id |-> 0, email |-> 0, invited_by |-> NULL, created_at |-> 0]

NoInvitation ==
    [id |-> 0, code |-> <<>>, email |-> 0, type |-> "", list_id |-> NULL,
     invited_by |-> 0, expires_at |-> 0, used |-> FALSE]

NoCode == <<>>

---------------------------------------------------------------------------
(* internal/auth: magic links *)

Sprintf06d(n) == PadZero(Decimal(n), 6)

GenerateCode(bytes) ==
    SubSeq(Sprintf06d(bytes[1] * 65536 + bytes[2] * 256 + bytes[3]), 1, 6)

CreateMagicLink(d, email, bytes, t) ==
    LET code == GenerateCode(bytes)
        d1 == [d EXCEPT !.magic_links = {m \in @ : m.email # email}]
        magicLink ==
            [code |-> code, email |-> email, expires_at |-> t + MagicLinkTTL,
             used |-> FALSE]
    IN  IF \E m \in d1.magic_links : m.code = code
        THEN [db |-> d1, code |-> NoCode, err |-> "UNIQUE constraint failed: magic_links.code"]
        ELSE [db |-> [d1 EXCEPT !.magic_links = @ \cup {magicLink}],
              code |-> code, err |-> NoErr]

(* Variant of ValidMagicLinks that does not look at the email *)
ValidMagicLinksOfAnyEmail(d, email, code, t) ==
    {m \in d.magic_links : m.code = code /\ ~m.used /\ m.expires_at > t}

(* Variant of ValidMagicLinks that does not look at expires_at *)
UnusedMagicLinks(d, email, code, t) ==
    {m \in d.magic_links : m.code = code /\ m.email = email /\ ~m.used}

ValidMagicLinks(d, email, code, t) ==
    {m \in d.magic_links :
        m.code = code /\ m.email = email /\ ~m.used /\ m.expires_at > t}

(* Variant of MarkMagicLinkUsed that leaves the row as it is *)
LeaveMagicLinkUnused(d, magicLink) == d

MarkMagicLinkUsed(d, magicLink) ==
    [d EXCEPT !.magic_links = (@ \ {magicLink}) \cup {[magicLink EXCEPT !.used = TRUE]}]

(* Variant of PendingInvitations that also returns used and expired ones *)
InvitationsEverSent(d, email, t) == {i \in d.invitations : i.email = email}

PendingInvitations(d, email, t) ==
    {i \in d.invitations : i.email = email /\ ~i.used /\ i.expires_at > t}

(* Variant of PendingListInvitations that returns invitations of any type *)
PendingInvitationsOfAnyType(d, email, t) == PendingInvitations(d, email, t)

PendingListInvitations(d, email, t) ==
    {i \in PendingInvitations(d, email, t) : i.type = "list"}

(* The set of possible results: First() orders by the uuid primary key, so *)
(* which of several matching invitations it returns is not determined.     *)
(* What verification does once the code is marked used, on the store d1    *)
ResolveUser(d1, email, t, uid) ==
    LET existing == {u \in d1.users : u.email = email}
    IN  IF existing # {}
        THEN
            LET user == CHOOSE u \in existing : TRUE
                pending == PendingListInvitations(d1, email, t)
            IN  IF pending # {}
                THEN {[db |-> d1, user |-> user, invitation |-> i, err |-> NoErr] :
                        i \in pending}
                ELSE {[db |-> d1, user |-> user, invitation |-> NoInvitation,
                       err |-> NoErr]}
        ELSE
            LET pending == PendingInvitations(d1, email, t)
            IN  IF pending = {}
                THEN {[db |-> d1, user |-> NoUser, invitation |-> NoInvitation,
                       err |-> "invitation required for new users"]}
                ELSE {LET user == [id |-> uid, email |-> email,
                                   invited_by |-> i.invited_by, created_at |-> t]
                      IN  [db |-> [d1 EXCEPT !.users = @ \cup {user}],
                           user |-> user, invitation |-> i, err |-> NoErr] :
                        i \in pending}

(* Variant of VerifyMagicLinkWithInvitation that keeps the code unused     *)
(* when the verification fails                                             *)
VerifyKeepingCodeOnFailure(d, email, code, t, uid) ==
    LET links == ValidMagicLinks(d, email, code, t)
    IN  IF links = {}
        THEN {[db |-> d, user |-> NoUser, invitation |-> NoInvitation,
               err |-> "record not found"]}
        ELSE {IF r.err # NoErr THEN [r EXCEPT !.db = d] ELSE r :
                r \in ResolveUser(MarkMagicLinkUsed(d, CHOOSE m \in links : TRUE),
                                  email, t, uid)}

VerifyMagicLinkWithInvitation(d, email, code, t, uid) ==
    LET links == ValidMagicLinks(d, email, code, t)
    IN  IF links = {}
        THEN {[db |-> d, user |-> NoUser, invitation |-> NoInvitation,
               err |-> "record not found"]}
        ELSE ResolveUser(MarkMagicLinkUsed(d, CHOOSE m \in links : TRUE), email, t, uid)

---------------------------------------------------------------------------
(* internal/auth: session tokens *)

(* A token string is the claims and the key that signed it; wellFormed is  *)
(* false for a string that does not parse as a token (the empty string     *)
(* included).  A header is a prefix followed by a token string.            *)
NoToken ==
    [wellFormed |-> FALSE, user_id |-> 0, email |-> 0, iat |-> 0, exp |-> 0, key |-> ""]

GarbageToken ==
    [wellFormed |-> FALSE, user_id |-> 0, email |-> 0, iat |-> 0, exp |-> 0, key |-> "garbage"]

NoHeader == [prefix |-> "", token |-> NoToken]

(* Variant of GenerateJWT whose token expires a day after it was issued *)
GenerateJWTForOneDay(user, t, secret) ==
    [wellFormed |-> TRUE, user_id |-> user.id, email |-> user.email,
     iat |-> t, exp |-> t + 96, key |-> secret]

GenerateJWT(user, t, secret) ==
    [wellFormed |-> TRUE, user_id |-> user.id, email |-> user.email,
     iat |-> t, exp |-> t + JWTTTL, key |-> secret]

(* Variant of ValidateJWT that does not look at the expiry claim *)
ValidateJWTIgnoringExpiry(tokenString, t) ==
    IF tokenString.wellFormed /\ tokenString.key = JWTSecret
    THEN [err |-> NoErr, UserID |-> tokenString.user_id, Email |-> tokenString.email]
    ELSE [err |-> "invalid token", UserID |-> 0, Email |-> 0]

ValidateJWT(tokenString, t) ==
    IF tokenString.wellFormed /\ tokenString.key = JWTSecret /\ t < tokenString.exp
    THEN [err |-> NoErr, UserID |-> tokenString.user_id, Email |-> tokenString.email]
    ELSE [err |-> "invalid token", UserID |-> 0, Email |-> 0]

TrimPrefix(s, prefix) ==
    IF s.prefix = prefix THEN [s EXCEPT !.prefix = ""] ELSE s

JWTMiddleware(authHeader, t) ==
    IF authHeader = NoHeader
    THEN [status |-> 401, err |-> "Missing authorization header",
          user_id |-> 0, user_email |-> 0]
    ELSE
    LET tokenString == TrimPrefix(authHeader, "Bearer ")
    IN  IF tokenString = authHeader
        THEN [status |-> 401, err |-> "Invalid authorization format",
              user_id |-> 0, user_email |-> 0]
        ELSE
        LET claims == ValidateJWT(tokenString.token, t)
        IN  IF claims.err # NoErr
            THEN [status |-> 401, err |-> "Invalid token",
                  user_id |-> 0, user_email |-> 0]
            ELSE [status |-> 0, err |-> NoErr,
                  user_id |-> claims.UserID, user_email |-> claims.Email]

---------------------------------------------------------------------------
(* internal/lists *)

(* Variant of IsListOwner that accepts a membership of any role *)
IsListMemberOfAnyRole(d, listID, userID) ==
    \E m \in d.members : m.list_id = listID /\ m.user_id = userID

IsListOwner(d, listID, userID) ==
    \E m \in d.members : m.list_id = listID /\ m.user_id = userID /\ m.role = "owner"

(* Variant of HasListAccess that lets every user in *)
EveryoneHasListAccess(d, listID, userID) == \E u \in d.users : u.id = userID

HasListAccess(d, listID, userID) ==
    \E m \in d.members : m.list_id = listID /\ m.user_id = userID

(* A blank identifier (the empty string) is the identifier 0. *)
IsBlankID(id) == id = 0

NoList == [id |-> 0, name |-> <<>>, owner_id |-> 0]

GetUserLists(d, userID) ==
    {l \in d.lists : \E m \in d.members : m.list_id = l.id /\ m.user_id = userID}

(* Variant of GetListByID that does not join the membership rows *)
GetListByIDForAnyone(d, listID, userID) ==
    LET found == {l \in d.lists : l.id = listID}
    IN  IF found = {} THEN [list |-> NoList, err |-> "list not found or access denied"]
        ELSE [list |-> CHOOSE l \in found : TRUE, err |-> NoErr]

GetListByID(d, listID, userID) ==
    LET found == {l \in d.lists :
                    l.id = listID /\ \E m \in d.members :
                        m.list_id = l.id /\ m.user_id = userID}
    IN  IF found = {} THEN [list |-> NoList, err |-> "list not found or access denied"]
        ELSE [list |-> CHOOSE l \in found : TRUE, err |-> NoErr]

CreateList(d, userID, name, id) ==
    IF IsBlankID(userID) THEN [db |-> d, err |-> "user ID cannot be empty"]
    ELSE IF TrimSpace(name) = <<>> THEN [db |-> d, err |-> "list name cannot be empty"]
    ELSE IF ~\E u \in d.users : u.id = userID THEN [db |-> d, err |-> "user not found"]
    ELSE
    LET list == [id |-> id, name |-> TrimSpace(name), owner_id |-> userID]
        member == [list_id |-> id, user_id |-> userID, role |-> "owner"]
    IN  [db |-> [d EXCEPT !.lists = @ \cup {list}, !.members = @ \cup {member}],
         err |-> NoErr]

(* Variant of CreateDefaultListForUser that reports success and creates nothing *)
NoDefaultList(d, userID, id) == [db |-> d, err |-> NoErr]

CreateDefaultListForUser(d, userID, id) == CreateList(d, userID, DefaultListName, id)

(* Variant of UpdateList that asks for access instead of ownership *)
UpdateListByMember(d, listID, userID, name) ==
    IF IsBlankID(listID) THEN [db |-> d, err |-> "list ID cannot be empty"]
    ELSE IF IsBlankID(userID) THEN [db |-> d, err |-> "user ID cannot be empty"]
    ELSE IF TrimSpace(name) = <<>> THEN [db |-> d, err |-> "list name cannot be empty"]
    ELSE IF ~HasListAccess(d, listID, userID)
         THEN [db |-> d, err |-> "only list owners can update lists"]
    ELSE IF ~\E l \in d.lists : l.id = listID THEN [db |-> d, err |-> "list not found"]
    ELSE [db |-> [d EXCEPT !.lists =
                    {IF l.id = listID THEN [l EXCEPT !.name = TrimSpace(name)] ELSE l :
                        l \in @}],
          err |-> NoErr]

UpdateList(d, listID, userID, name) ==
    IF IsBlankID(listID) THEN [db |-> d, err |-> "list ID cannot be empty"]
    ELSE IF IsBlankID(userID) THEN [db |-> d, err |-> "user ID cannot be empty"]
    ELSE IF TrimSpace(name) = <<>> THEN [db |-> d, err |-> "list name cannot be empty"]
    ELSE IF ~IsListOwner(d, listID, userID)
         THEN [db |-> d, err |-> "only list owners can update lists"]
    ELSE IF ~\E l \in d.lists : l.id = listID THEN [db |-> d, err |-> "list not found"]
    ELSE [db |-> [d EXCEPT !.lists =
                    {IF l.id = listID THEN [l EXCEPT !.name = TrimSpace(name)] ELSE l :
                        l \in @}],
          err |-> NoErr]

(* Variant of DeleteList that leaves the list's items in place *)
DeleteListKeepingItems(d, listID, userID) ==
    IF IsBlankID(listID) THEN [db |-> d, err |-> "list ID cannot be empty"]
    ELSE IF IsBlankID(userID) THEN [db |-> d, err |-> "user ID cannot be empty"]
    ELSE IF ~IsListOwner(d, listID, userID)
         THEN [db |-> d, err |-> "only list owners can delete lists"]
    ELSE
    LET d1 == [d EXCEPT !.members = {m \in @ : m.list_id # listID}]
    IN  IF ~\E l \in d1.lists : l.id = listID
        THEN [db |-> d1, err |-> "list not found"]
        ELSE [db |-> [d1 EXCEPT !.lists = {l \in @ : l.id # listID}], err |-> NoErr]

DeleteList(d, listID, userID) ==
    IF IsBlankID(listID) THEN [db |-> d, err |-> "list ID cannot be empty"]
    ELSE IF IsBlankID(userID) THEN [db |-> d, err |-> "user ID cannot be empty"]
    ELSE IF ~IsListOwner(d, listID, userID)
         THEN [db |-> d, err |-> "only list owners can delete lists"]
    ELSE
    LET d1 == [d EXCEPT !.members = {m \in @ : m.list_id # listID},
                        !.items = {i \in @ : i.list_id # listID}]
    IN  IF ~\E l \in d1.lists : l.id = listID
        THEN [db |-> d1, err |-> "list not found"]
        ELSE [db |-> [d1 EXCEPT !.lists = {l \in @ : l.id # listID}], err |-> NoErr]

(* Variant of AddMemberToList that stores the new row with the owner role *)
AddMemberAsOwner(d, listID, userID, newMemberID) ==
    IF IsBlankID(listID) THEN [db |-> d, err |-> "list ID cannot be empty"]
    ELSE IF IsBlankID(userID) THEN [db |-> d, err |-> "user ID cannot be empty"]
    ELSE IF IsBlankID(newMemberID) THEN [db |-> d, err |-> "new member ID cannot be empty"]
    ELSE IF ~IsListOwner(d, listID, userID)
         THEN [db |-> d, err |-> "only list owners can add members"]
    ELSE IF \E m \in d.members : m.list_id = listID /\ m.user_id = newMemberID
         THEN [db |-> d, err |-> "user is already a member of this list"]
    ELSE [db |-> [d EXCEPT !.members =
                    @ \cup {[list_id |-> listID, user_id |-> newMemberID, role |-> "owner"]}],
          err |-> NoErr]

(* Variant of AddMemberToList without the check for an existing row *)
AddMemberToListAgain(d, listID, userID, newMemberID) ==
    IF IsBlankID(listID) THEN [db |-> d, err |-> "list ID cannot be empty"]
    ELSE IF IsBlankID(userID) THEN [db |-> d, err |-> "user ID cannot be empty"]
    ELSE IF IsBlankID(newMemberID) THEN [db |-> d, err |-> "new member ID cannot be empty"]
    ELSE IF ~IsListOwner(d, listID, userID)
         THEN [db |-> d, err |-> "only list owners can add members"]
    ELSE [db |-> [d EXCEPT !.members =
                    @ \cup {[list_id |-> listID, user_id |-> newMemberID, role |-> "member"]}],
          err |-> NoErr]

AddMemberToList(d, listID, userID, newMemberID) ==
    IF IsBlankID(listID) THEN [db |-> d, err |-> "list ID cannot be empty"]
    ELSE IF IsBlankID(userID) THEN [db |-> d, err |-> "user ID cannot be empty"]
    ELSE IF IsBlankID(newMemberID) THEN [db |-> d, err |-> "new member ID cannot be empty"]
    ELSE IF ~IsListOwner(d, listID, userID)
         THEN [db |-> d, err |-> "only list owners can add members"]
    ELSE IF \E m \in d.members : m.list_id = listID /\ m.user_id = newMemberID
         THEN [db |-> d, err |-> "user is already a member of this list"]
    ELSE [db |-> [d EXCEPT !.members =
                    @ \cup {[list_id |-> listID, user_id |-> newMemberID, role |-> "member"]}],
          err |-> NoErr]

(* Variant of OwnerCount that counts the members of every role *)
MemberCount(d, listID) == Cardinality({m \in d.members : m.list_id = listID})

OwnerCount(d, listID) ==
    Cardinality({m \in d.members : m.list_id = listID /\ m.role = "owner"})

RemoveMemberFromList(d, listID, userID, memberID) ==
    IF IsBlankID(listID) THEN [db |-> d, err |-> "list ID cannot be empty"]
    ELSE IF IsBlankID(userID) THEN [db |-> d, err |-> "user ID cannot be empty"]
    ELSE IF IsBlankID(memberID) THEN [db |-> d, err |-> "member ID cannot be empty"]
    ELSE IF ~IsListOwner(d, listID, userID) /\ userID # memberID
         THEN [db |-> d, err |-> "access denied"]
    ELSE IF userID = memberID /\ IsListOwner(d, listID, userID) /\ OwnerCount(d, listID) <= 1
         THEN [db |-> d, err |-> "cannot remove the last owner from the list"]
    ELSE IF ~\E m \in d.members : m.list_id = listID /\ m.user_id = memberID
         THEN [db |-> d, err |-> "member not found"]
    ELSE [db |-> [d EXCEPT !.members =
                    {m \in @ : ~(m.list_id = listID /\ m.user_id = memberID)}],
          err |-> NoErr]

---------------------------------------------------------------------------
(* internal/invitations *)

(* Variant of GenerateInvitationCode that prints with "%x" *)
LowerCaseInvitationCode(bytes) == [i \in 1..(2 * Len(bytes)) |-> LowerOf(SprintfX(bytes)[i])]

GenerateInvitationCode(bytes) == SprintfX(bytes)

(* Variant of InviterOwnsList that accepts a membership of any role *)
InviterHasAccess(d, listID, inviterID) ==
    \E m \in d.members : m.list_id = listID /\ m.user_id = inviterID

InviterOwnsList(d, listID, inviterID) ==
    \E m \in d.members : m.list_id = listID /\ m.user_id = inviterID /\ m.role = "owner"

(* Variant of RegisteredUsers that finds nobody *)
NoRegisteredUsers(d, email) == {}

RegisteredUsers(d, email) == {u \in d.users : u.email = email}

(* Variant of DeleteUnusedInvitations that deletes nothing *)
KeepUnusedInvitations(d, email) == d

DeleteUnusedInvitations(d, email) ==
    [d EXCEPT !.invitations = {i \in @ : ~(i.email = email /\ ~i.used)}]

(* Variant of CreateInvitation without the check for an existing member *)
CreateInvitationForMembers(d, inviterID, email, invType, listID, bytes, id, t) ==
    IF invType # "server" /\ invType # "list"
    THEN [db |-> d, invitation |-> NoInvitation, err |-> "invalid invitation type"]
    ELSE IF invType = "list" /\ listID = NULL
    THEN [db |-> d, invitation |-> NoInvitation,
          err |-> "list_id required for list invitations"]
    ELSE IF invType = "list" /\ ~InviterOwnsList(d, listID, inviterID)
    THEN [db |-> d, invitation |-> NoInvitation,
          err |-> "user is not the owner of this list"]
    ELSE IF invType # "list" /\ RegisteredUsers(d, email) # {}
    THEN [db |-> d, invitation |-> NoInvitation, err |-> "user already exists"]
    ELSE IF \E i \in d.invitations : i.email = email /\ ~i.used /\ i.type = invType
    THEN [db |-> d, invitation |-> NoInvitation, err |-> "user is already invited"]
    ELSE
    LET d1 == DeleteUnusedInvitations(d, email)
        invitation ==
            [id |-> id, code |-> GenerateInvitationCode(bytes), email |-> email,
             type |-> invType, list_id |-> listID, invited_by |-> inviterID,
             expires_at |-> t + InvitationTTL, used |-> FALSE]
    IN  IF \E i \in d1.invitations : i.code = invitation.code
        THEN [db |-> d1, invitation |-> NoInvitation,
              err |-> "UNIQUE constraint failed: invitations.code"]
        ELSE [db |-> [d1 EXCEPT !.invitations = @ \cup {invitation}],
              invitation |-> invitation, err |-> NoErr]

(* Variant of CreateInvitation that refuses when an unused invitation of   *)
(* any type exists for the email                                           *)
CreateInvitationOncePerEmail(d, inviterID, email, invType, listID, bytes, id, t) ==
    IF invType # "server" /\ invType # "list"
    THEN [db |-> d, invitation |-> NoInvitation, err |-> "invalid invitation type"]
    ELSE IF invType = "list" /\ listID = NULL
    THEN [db |-> d, invitation |-> NoInvitation,
          err |-> "list_id required for list invitations"]
    ELSE IF invType = "list" /\ ~InviterOwnsList(d, listID, inviterID)
    THEN [db |-> d, invitation |-> NoInvitation,
          err |-> "user is not the owner of this list"]
    ELSE IF invType = "list" /\ \E u \in RegisteredUsers(d, email) :
                \E m \in d.members : m.list_id = listID /\ m.user_id = u.id
    THEN [db |-> d, invitation |-> NoInvitation,
          err |-> "user is already a member of this list"]
    ELSE IF invType # "list" /\ RegisteredUsers(d, email) # {}
    THEN [db |-> d, invitation |-> NoInvitation, err |-> "user already exists"]
    ELSE IF \E i \in d.invitations : i.email = email /\ ~i.used
    THEN [db |-> d, invitation |-> NoInvitation, err |-> "user is already invited"]
    ELSE
    LET d1 == DeleteUnusedInvitations(d, email)
        invitation ==
            [id |-> id, code |-> GenerateInvitationCode(bytes), email |-> email,
             type |-> invType, list_id |-> listID, invited_by |-> inviterID,
             expires_at |-> t + InvitationTTL, used |-> FALSE]
    IN  IF \E i \in d1.invitations : i.code = invitation.code
        THEN [db |-> d1, invitation |-> NoInvitation,
              err |-> "UNIQUE constraint failed: invitations.code"]
        ELSE [db |-> [d1 EXCEPT !.invitations = @ \cup {invitation}],
              invitation |-> invitation, err |-> NoErr]

CreateInvitation(d, inviterID, email, invType, listID, bytes, id, t) ==
    IF invType # "server" /\ invType # "list"
    THEN [db |-> d, invitation |-> NoInvitation, err |-> "invalid invitation type"]
    ELSE IF invType = "list" /\ listID = NULL
    THEN [db |-> d, invitation |-> NoInvitation,
          err |-> "list_id required for list invitations"]
    ELSE IF invType = "list" /\ ~InviterOwnsList(d, listID, inviterID)
    THEN [db |-> d, invitation |-> NoInvitation,
          err |-> "user is not the owner of this list"]
    ELSE IF invType = "list" /\ \E u \in RegisteredUsers(d, email) :
                \E m \in d.members : m.list_id = listID /\ m.user_id = u.id
    THEN [db |-> d, invitation |-> NoInvitation,
          err |-> "user is already a member of this list"]
    ELSE IF invType # "list" /\ RegisteredUsers(d, email) # {}
    THEN [db |-> d, invitation |-> NoInvitation, err |-> "user already exists"]
    ELSE IF \E i \in d.invitations : i.email = email /\ ~i.used /\ i.type = invType
    THEN [db |-> d, invitation |-> NoInvitation, err |-> "user is already invited"]
    ELSE
    LET d1 == DeleteUnusedInvitations(d, email)
        invitation ==
            [id |-> id, code |-> GenerateInvitationCode(bytes), email |-> email,
             type |-> invType, list_id |-> listID, invited_by |-> inviterID,
             expires_at |-> t + InvitationTTL, used |-> FALSE]
    IN  IF \E i \in d1.invitations : i.code = invitation.code
        THEN [db |-> d1, invitation |-> NoInvitation,
              err |-> "UNIQUE constraint failed: invitations.code"]
        ELSE [db |-> [d1 EXCEPT !.invitations = @ \cup {invitation}],
              invitation |-> invitation, err |-> NoErr]

(* Variant of AcceptInvitation that does not save the used flag *)
AcceptInvitationUnmarked(d, email, code, t) ==
    LET found == {i \in d.invitations :
                    i.email = email /\ i.code = ToUpper(code) /\ ~i.used /\ i.expires_at > t}
    IN  IF found = {}
        THEN {[db |-> d, invitation |-> NoInvitation, err |-> "invalid or expired invitation"]}
        ELSE {[db |-> d, invitation |-> [i EXCEPT !.used = TRUE], err |-> NoErr] : i \in found}

(* The set of possible results, as for VerifyMagicLinkWithInvitation. *)
AcceptInvitation(d, email, code, t) ==
    LET found == {i \in d.invitations :
                    i.email = email /\ i.code = ToUpper(code) /\ ~i.used /\ i.expires_at > t}
    IN  IF found = {}
        THEN {[db |-> d, invitation |-> NoInvitation, err |-> "invalid or expired invitation"]}
        ELSE {[db |-> [d EXCEPT !.invitations =
                         (@ \ {i}) \cup {[i EXCEPT !.used = TRUE]}],
               invitation |-> [i EXCEPT !.used = TRUE], err |-> NoErr] : i \in found}

GetUserInvitations(d, userID) == {i \in d.invitations : i.invited_by = userID}

(* Variant of RevokeInvitation that does not look at invited_by *)
RevokeAnyInvitation(d, invitationID, userID) ==
    LET hit == {i \in d.invitations : i.id = invitationID /\ ~i.used}
    IN  IF hit = {}
        THEN [db |-> d, err |-> "invitation not found or already used"]
        ELSE [db |-> [d EXCEPT !.invitations = @ \ hit], err |-> NoErr]

RevokeInvitation(d, invitationID, userID) ==
    LET hit == {i \in d.invitations :
                    i.id = invitationID /\ i.invited_by = userID /\ ~i.used}
    IN  IF hit = {}
        THEN [db |-> d, err |-> "invitation not found or already used"]
        ELSE [db |-> [d EXCEPT !.invitations = @ \ hit], err |-> NoErr]

---------------------------------------------------------------------------
(* internal/setup *)

IsSystemSetup(d) == \E s \in d.settings : s.is_setup

(* Variant of SetupSystem that does not ask whether the system is set up *)
SetupSystemAgain(d, email, uid, lid, t) ==
    IF \E u \in d.users : u.email = email
    THEN [db |-> d, user |-> NoUser, err |-> "UNIQUE constraint failed: users.email"]
    ELSE
    LET user == [id |-> uid, email |-> email, invited_by |-> NULL, created_at |-> t]
    IN  [db |-> [d EXCEPT !.users = @ \cup {user},
                          !.lists = @ \cup {[id |-> lid, name |-> DefaultListName,
                                              owner_id |-> uid]},
                          !.members = @ \cup {[list_id |-> lid, user_id |-> uid,
                                                role |-> "owner"]},
                          !.settings = @ \cup {[id |-> "system", is_setup |-> TRUE,
                                                 initial_admin |-> uid]}],
         user |-> user, err |-> NoErr]

SetupSystem(d, email, uid, lid, t) ==
    IF IsSystemSetup(d) THEN [db |-> d, user |-> NoUser, err |-> "system is already setup"]
    ELSE IF \E u \in d.users : u.email = email
    THEN [db |-> d, user |-> NoUser, err |-> "UNIQUE constraint failed: users.email"]
    ELSE
    LET user == [id |-> uid, email |-> email, invited_by |-> NULL, created_at |-> t]
        defaultList == [id |-> lid, name |-> DefaultListName, owner_id |-> uid]
        listMember == [list_id |-> lid, user_id |-> uid, role |-> "owner"]
        settings == [id |-> "system", is_setup |-> TRUE, initial_admin |-> uid]
    IN  [db |-> [d EXCEPT !.users = @ \cup {user}, !.lists = @ \cup {defaultList},
                          !.members = @ \cup {listMember},
                          !.settings = @ \cup {settings}],
         user |-> user, err |-> NoErr]

(* First(&firstUser) orders by the primary key *)
FirstUser(d) == CHOOSE u \in d.users : \A v \in d.users : u.id <= v.id

(* lids[u] is the uuid drawn for the default list of user u.  The items    *)
(* written by the version without lists carry a user_id and no list.       *)
MigrateExistingData(d, lids) ==
    IF d.users = {} THEN [db |-> d, err |-> NoErr]
    ELSE IF IsSystemSetup(d) THEN [db |-> d, err |-> NoErr]
    ELSE
    LET firstUser == FirstUser(d)
        ids == {u.id : u \in d.users}
        defaultLists == {[id |-> lids[u], name |-> DefaultListName, owner_id |-> u] : u \in ids}
        listMembers == {[list_id |-> lids[u], user_id |-> u, role |-> "owner"] : u \in ids}
        items == {IF "user_id" \in DOMAIN i /\ i.user_id \in ids
                  THEN [i EXCEPT !.list_id = lids[i.user_id]] ELSE i : i \in d.items}
        settings == [id |-> "system", is_setup |-> TRUE, initial_admin |-> firstUser.id]
    IN  [db |-> [d EXCEPT !.lists = @ \cup defaultLists, !.members = @ \cup listMembers,
                          !.items = items, !.settings = @ \cup {settings}],
         err |-> NoErr]

---------------------------------------------------------------------------
(* internal/handlers: each handler as a function of the store, the user id *)
(* the middleware put into the request context, and the request            *)

Reply(d, status, err) == [db |-> d, status |-> status, err |-> err]

RequestLogin(d, parsed, email, bytes, mailSent, t) ==
    IF ~parsed THEN Reply(d, 400, "Invalid request body")
    ELSE
    LET r == CreateMagicLink(d, email, bytes, t)
    IN  IF r.err # NoErr THEN Reply(r.db, 500, "Failed to create login code")
        ELSE IF ~mailSent THEN Reply(r.db, 500, "Failed to send email")
        ELSE Reply(r.db, 200, NoErr)

(* What VerifyLogin does with the invitation that verification returned *)
ApplyInvitation(d, email, user, invitation, lid, t) ==
    {IF a.err # NoErr THEN Reply(a.db, 500, "Failed to accept invitation")
     ELSE IF invitation.type = "server"
     THEN LET c == CreateDefaultListForUser(a.db, user.id, lid)
          IN  IF c.err # NoErr THEN Reply(c.db, 500, "Failed to create default list")
              ELSE Reply(c.db, 200, NoErr)
     ELSE IF invitation.type = "list" /\ invitation.list_id # NULL
     THEN LET m == AddMemberToList(a.db, invitation.list_id, invitation.invited_by, user.id)
          IN  IF m.err # NoErr THEN Reply(m.db, 500, "Failed to add to list")
              ELSE Reply(m.db, 200, NoErr)
     ELSE Reply(a.db, 200, NoErr) :
        a \in AcceptInvitation(d, email, invitation.code, t)}

(* What VerifyLogin answers to the result v of the verification *)
AnswerLogin(v, email, lid, t) ==
    IF v.err # NoErr
    THEN {[db |-> v.db, status |-> 401, err |-> "Invalid or expired code",
           user |-> NoUser, invitation |-> NoInvitation]}
    ELSE IF v.invitation = NoInvitation
    THEN {[db |-> v.db, status |-> 200, err |-> NoErr, user |-> v.user,
           invitation |-> NoInvitation]}
    ELSE {[db |-> a.db, status |-> a.status, err |-> a.err, user |-> v.user,
           invitation |-> v.invitation] :
            a \in ApplyInvitation(v.db, email, v.user, v.invitation, lid, t)}

(* The set of possible results, each with the user the token is issued to *)
VerifyLogin(d, parsed, email, code, uid, lid, t) ==
    IF ~parsed
    THEN {[db |-> d, status |-> 400, err |-> "Invalid request body", user |-> NoUser,
           invitation |-> NoInvitation]}
    ELSE UNION {AnswerLogin(v, email, lid, t) :
                    v \in VerifyMagicLinkWithInvitation(d, email, code, t, uid)}

GetLists(d, userID) ==
    [db |-> d, status |-> 200, err |-> NoErr, body |-> GetUserLists(d, userID)]

ServerCreateList(d, userID, parsed, name, lid) ==
    IF ~parsed THEN Reply(d, 400, "Invalid request body")
    ELSE LET r == CreateList(d, userID, name, lid)
         IN  IF r.err # NoErr THEN Reply(r.db, 500, r.err) ELSE Reply(r.db, 201, NoErr)

GetList(d, userID, listID) ==
    LET r == GetListByID(d, listID, userID)
    IN  IF r.err # NoErr THEN Reply(d, 404, r.err) ELSE Reply(d, 200, NoErr)

ServerUpdateList(d, userID, listID, parsed, name) ==
    IF ~parsed THEN Reply(d, 400, "Invalid request body")
    ELSE LET r == UpdateList(d, listID, userID, name)
         IN  IF r.err # NoErr THEN Reply(r.db, 403, r.err) ELSE Reply(r.db, 200, NoErr)

ServerDeleteList(d, userID, listID) ==
    LET r == DeleteList(d, listID, userID)
    IN  IF r.err # NoErr THEN Reply(r.db, 403, r.err) ELSE Reply(r.db, 204, NoErr)

GetListMembers(d, userID, listID) ==
    IF IsBlankID(listID) \/ IsBlankID(userID) \/ ~HasListAccess(d, listID, userID)
    THEN [db |-> d, status |-> 403, err |-> "access denied", body |-> {}]
    ELSE [db |-> d, status |-> 200, err |-> NoErr,
          body |-> {u \in d.users :
                      \E m \in d.members : m.list_id = listID /\ m.user_id = u.id}]

RemoveListMember(d, userID, listID, memberID) ==
    LET r == RemoveMemberFromList(d, listID, userID, memberID)
    IN  IF r.err # NoErr THEN Reply(r.db, 403, r.err) ELSE Reply(r.db, 204, NoErr)

GetListItems(d, userID, listID) ==
    IF ~HasListAccess(d, listID, userID)
    THEN [db |-> d, status |-> 403, err |-> "Access denied", body |-> {}]
    ELSE [db |-> d, status |-> 200, err |-> NoErr,
          body |-> {i \in d.items : i.list_id = listID}]

CreateListItem(d, userID, listID, parsed, name, tags, id) ==
    IF ~HasListAccess(d, listID, userID) THEN Reply(d, 403, "Access denied")
    ELSE IF ~parsed THEN Reply(d, 400, "Invalid request body")
    ELSE
    LET item == [id |-> id, list_id |-> listID, name |-> name, completed |-> FALSE,
                 tags |-> IF tags = <<>> THEN <<"[]">> ELSE tags]
    IN  Reply([d EXCEPT !.items = @ \cup {item}], 201, NoErr)

UpdateListItem(d, userID, listID, itemID, parsed, name, tags) ==
    IF ~HasListAccess(d, listID, userID) THEN Reply(d, 403, "Access denied")
    ELSE IF ~\E i \in d.items : i.id = itemID /\ i.list_id = listID
    THEN Reply(d, 404, "Item not found")
    ELSE IF ~parsed THEN Reply(d, 400, "Invalid request body")
    ELSE Reply([d EXCEPT !.items =
                    {IF i.id = itemID /\ i.list_id = listID
                     THEN [i EXCEPT !.name = name,
                                    !.tags = IF tags # <<>> THEN tags ELSE @]
                     ELSE i : i \in @}],
               200, NoErr)

ToggleListItem(d, userID, listID, itemID) ==
    IF ~HasListAccess(d, listID, userID) THEN Reply(d, 403, "Access denied")
    ELSE IF ~\E i \in d.items : i.id = itemID /\ i.list_id = listID
    THEN Reply(d, 404, "Item not found")
    ELSE Reply([d EXCEPT !.items =
                    {IF i.id = itemID /\ i.list_id = listID
                     THEN [i EXCEPT !.completed = ~@] ELSE i : i \in @}],
               200, NoErr)

DeleteListItem(d, userID, listID, itemID) ==
    IF ~HasListAccess(d, listID, userID) THEN Reply(d, 403, "Access denied")
    ELSE IF ~\E i \in d.items : i.id = itemID /\ i.list_id = listID
    THEN Reply(d, 404, "Item not found")
    ELSE Reply([d EXCEPT !.items = {i \in @ : ~(i.id = itemID /\ i.list_id = listID)}],
               204, NoErr)

(* Variant of the CreateInvitation handler that answers 409 when the       *)
(* address belongs to a user or is already invited                         *)
CreateInvitationWithConflict(d, userID, parsed, email, invType, listID, bytes, id, t) ==
    IF ~parsed THEN Reply(d, 400, "Invalid request body")
    ELSE LET r == CreateInvitation(d, userID, email, invType, listID, bytes, id, t)
         IN  IF r.err \in {"user already exists", "user is already invited",
                           "user is already a member of this list"}
             THEN Reply(r.db, 409, r.err)
             ELSE IF r.err # NoErr THEN Reply(r.db, 400, r.err)
             ELSE Reply(r.db, 201, NoErr)

ServerCreateInvitation(d, userID, parsed, email, invType, listID, bytes, id, t) ==
    IF ~parsed THEN Reply(d, 400, "Invalid request body")
    ELSE LET r == CreateInvitation(d, userID, email, invType, listID, bytes, id, t)
         IN  IF r.err # NoErr THEN Reply(r.db, 400, r.err) ELSE Reply(r.db, 201, NoErr)

GetInvitations(d, userID) ==
    [db |-> d, status |-> 200, err |-> NoErr, body |-> GetUserInvitations(d, userID)]

ServerRevokeInvitation(d, userID, invitationID) ==
    LET r == RevokeInvitation(d, invitationID, userID)
    IN  IF r.err # NoErr THEN Reply(r.db, 404, r.err) ELSE Reply(r.db, 204, NoErr)

---------------------------------------------------------------------------
(* Requests *)

(* The headers a client can send: none, one without a token, one with a  *)
(* string that is no token, a token the server has issued, such a token   *)
(* signed with another secret, and an issued token without "Bearer ".     *)
ForgedTokens(issued) == {[k EXCEPT !.key = "another-secret"] : k \in issued}

AuthHeaders(issued) ==
    {NoHeader, [prefix |-> "Bearer ", token |-> NoToken],
     [prefix |-> "Bearer ", token |-> GarbageToken]}
        \cup {[prefix |-> "Bearer ", token |-> k] : k \in issued \cup ForgedTokens(issued)}
        \cup {[prefix |-> p, token |-> k] : p \in {"Basic ", ""}, k \in issued}

(* The requests that pass the middleware: c.Next() *)
Authenticated ==
    {m \in {JWTMiddleware(h, now) : h \in AuthHeaders(tokens)} : m.status # 401}

Serving == IsSystemSetup(db)

Codes == {GenerateCode(b) : b \in RandomBytes3}

InvitationCodes == {GenerateInvitationCode(b) : b \in RandomBytes4}

(* The inputs of a request whose body parses; one request stands for all  *)
(* the bodies that do not parse                                           *)
Body(parsed, S) == IF parsed THEN S ELSE {CHOOSE x \in S : TRUE}

(* The connections that are served at the same time, and a connection    *)
(* without a request                                                       *)
Slots == 1..MaxRequests

Idle == [op |-> "", pc |-> "Idle"]

Respond(op, args, r) ==
    /\ db' = r.db
    /\ resp' = [op |-> op, args |-> args, status |-> r.status, err |-> r.err]

Init ==
    /\ db = EmptyDB
    /\ now = 0
    /\ ticks = 0
    /\ fresh = [user |-> 1, list |-> 1, invitation |-> 1, item |-> 1, login |-> 1]
    /\ resp = [op |-> "", args |-> <<>>, status |-> 0, err |-> NoErr]
    /\ verified = {}
    /\ tokens = {}
    /\ inflight = [s \in Slots |-> Idle]

Tick(steps) ==
    /\ ticks < MaxTicks
    /\ \E step \in steps : now' = now + step
    /\ ticks' = ticks + 1
    /\ UNCHANGED <<db, fresh, resp, verified, tokens, inflight>>

RunSetup ==
    /\ fresh.list <= MaxLists
    /\ \E email \in SetupEmails :
        LET r == SetupSystem(db, email, fresh.user, fresh.list, now)
        IN  /\ db' = r.db
            /\ resp' = [op |-> "SetupSystem", args |-> <<email>>, status |-> 0, err |-> r.err]
            /\ fresh' = IF r.err = NoErr
                        THEN [fresh EXCEPT !.user = @ + 1, !.list = @ + 1] ELSE fresh
    /\ UNCHANGED <<now, ticks, verified, tokens, inflight>>

(* main, started without the setup argument on a store that is not set up *)
Migrate ==
    /\ ~IsSystemSetup(db)
    /\ LET ids == {u.id : u \in db.users}
           lids == [u \in ids |-> fresh.list + Cardinality({v \in ids : v < u})]
           r == MigrateExistingData(db, lids)
       IN  /\ fresh.list + Cardinality(ids) <= MaxLists + 1
           /\ db' = r.db
           /\ resp' = [op |-> "MigrateExistingData", args |-> <<>>, status |-> 0, err |-> r.err]
           /\ fresh' = [fresh EXCEPT !.list = @ + Cardinality(ids)]
    /\ UNCHANGED <<now, ticks, verified, tokens, inflight>>

Rejected ==
    /\ Serving
    /\ \E h \in AuthHeaders(tokens) :
        LET m == JWTMiddleware(h, now)
        IN  /\ m.status = 401
            /\ resp' = [op |-> "JWTMiddleware", args |-> <<h.prefix, h.token.key>>,
                        status |-> m.status, err |-> m.err]
    /\ UNCHANGED <<db, now, ticks, fresh, verified, tokens, inflight>>

PostAuthLogin ==
    /\ Serving
    /\ fresh.login <= MaxLogins
    /\ \E parsed \in BOOLEAN :
       \E email \in Body(parsed, Emails), bytes \in Body(parsed, RandomBytes3),
          mailSent \in Body(parsed, BOOLEAN) :
        LET r == RequestLogin(db, parsed, email, bytes, mailSent, now)
            issued == CreateMagicLink(db, email, bytes, now).code
        IN  /\ Respond("RequestLogin", <<email, GenerateCode(bytes)>>, r)
            /\ fresh' = IF parsed THEN [fresh EXCEPT !.login = @ + 1] ELSE fresh
            /\ verified' = {IF parsed /\ v.email = email /\ v.code = issued
                            THEN [v EXCEPT !.reissued = TRUE] ELSE v : v \in verified}
    /\ UNCHANGED <<now, ticks, tokens, inflight>>

PostAuthVerify ==
    /\ Serving
    /\ \E parsed \in BOOLEAN :
       \E email \in Body(parsed, Emails), code \in Body(parsed, Codes) :
        \E r \in VerifyLogin(db, parsed, email, code, fresh.user, fresh.list, now) :
            /\ r.db.lists = db.lists \/ fresh.list <= MaxLists
            /\ Respond("VerifyLogin", <<email, code>>, r)
            /\ fresh' = [fresh EXCEPT
                            !.user = IF r.db.users # db.users THEN @ + 1 ELSE @,
                            !.list = IF r.db.lists # db.lists THEN @ + 1 ELSE @]
            /\ verified' =
                IF r.user = NoUser THEN verified
                ELSE {v \in verified : ~(v.email = email /\ v.code = code)}
                        \cup {[email |-> email, code |-> code, reissued |-> FALSE]}
            /\ tokens' = IF r.status = 200
                          THEN tokens \cup {GenerateJWT(r.user, now, JWTSecret)}
                          ELSE tokens
    /\ UNCHANGED <<now, ticks, inflight>>

GetListsReq ==
    /\ Serving
    /\ \E m \in Authenticated : Respond("GetLists", <<m.user_id>>, GetLists(db, m.user_id))
    /\ UNCHANGED <<now, ticks, fresh, verified, tokens, inflight>>

PostLists ==
    /\ Serving
    /\ fresh.list <= MaxLists
    /\ \E m \in Authenticated, parsed \in BOOLEAN :
       \E name \in Body(parsed, ListNames) :
        LET r == ServerCreateList(db, m.user_id, parsed, name, fresh.list)
        IN  /\ Respond("CreateList", <<m.user_id, name>>, r)
            /\ fresh' = IF r.db.lists # db.lists THEN [fresh EXCEPT !.list = @ + 1] ELSE fresh
    /\ UNCHANGED <<now, ticks, verified, tokens, inflight>>

GetListReq ==
    /\ Serving
    /\ \E m \in Authenticated, listID \in ListIDs :
        Respond("GetList", <<m.user_id, listID>>, GetList(db, m.user_id, listID))
    /\ UNCHANGED <<now, ticks, fresh, verified, tokens, inflight>>

PutList ==
    /\ Serving
    /\ \E m \in Authenticated, listID \in ListIDs, parsed \in BOOLEAN :
       \E name \in Body(parsed, ListNames) :
        Respond("UpdateList", <<m.user_id, listID, name>>, ServerUpdateList(db, m.user_id, listID, parsed, name))
    /\ UNCHANGED <<now, ticks, fresh, verified, tokens, inflight>>

DeleteListReq ==
    /\ Serving
    /\ \E m \in Authenticated, listID \in ListIDs :
        Respond("DeleteList", <<m.user_id, listID>>, ServerDeleteList(db, m.user_id, listID))
    /\ UNCHANGED <<now, ticks, fresh, verified, tokens, inflight>>

GetListMembersReq ==
    /\ Serving
    /\ \E m \in Authenticated, listID \in ListIDs :
        Respond("GetListMembers", <<m.user_id, listID>>, GetListMembers(db, m.user_id, listID))
    /\ UNCHANGED <<now, ticks, fresh, verified, tokens, inflight>>

DeleteListMember ==
    /\ Serving
    /\ \E m \in Authenticated, listID \in ListIDs, memberID \in 1..NumEmails :
        Respond("RemoveListMember", <<m.user_id, listID, memberID>>, RemoveListMember(db, m.user_id, listID, memberID))
    /\ UNCHANGED <<now, ticks, fresh, verified, tokens, inflight>>

GetListItemsReq ==
    /\ Serving
    /\ \E m \in Authenticated, listID \in ListIDs :
        Respond("GetListItems", <<m.user_id, listID>>, GetListItems(db, m.user_id, listID))
    /\ UNCHANGED <<now, ticks, fresh, verified, tokens, inflight>>

PostListItem ==
    /\ Serving
    /\ fresh.item <= MaxItems
    /\ \E m \in Authenticated, listID \in ListIDs, parsed \in BOOLEAN :
       \E name \in Body(parsed, ItemNames), tags \in Body(parsed, ItemTags) :
        LET r == CreateListItem(db, m.user_id, listID, parsed, name, tags, fresh.item)
        IN  /\ Respond("CreateListItem", <<m.user_id, listID>>, r)
            /\ fresh' = IF r.db.items # db.items THEN [fresh EXCEPT !.item = @ + 1] ELSE fresh
    /\ UNCHANGED <<now, ticks, verified, tokens, inflight>>

PutListItem ==
    /\ Serving
    /\ \E m \in Authenticated, listID \in ListIDs, itemID \in ItemIDs, parsed \in BOOLEAN :
       \E name \in Body(parsed, ItemNames), tags \in Body(parsed, ItemTags) :
        Respond("UpdateListItem", <<m.user_id, listID, itemID>>,
                UpdateListItem(db, m.user_id, listID, itemID, parsed, name, tags))
    /\ UNCHANGED <<now, ticks, fresh, verified, tokens, inflight>>

PostListItemToggle ==
    /\ Serving
    /\ \E m \in Authenticated, listID \in ListIDs, itemID \in ItemIDs :
        Respond("ToggleListItem", <<m.user_id, listID, itemID>>, ToggleListItem(db, m.user_id, listID, itemID))
    /\ UNCHANGED <<now, ticks, fresh, verified, tokens, inflight>>

DeleteListItemReq ==
    /\ Serving
    /\ \E m \in Authenticated, listID \in ListIDs, itemID \in ItemIDs :
        Respond("DeleteListItem", <<m.user_id, listID, itemID>>, DeleteListItem(db, m.user_id, listID, itemID))
    /\ UNCHANGED <<now, ticks, fresh, verified, tokens, inflight>>

PostInvitations ==
    /\ Serving
    /\ \E m \in Authenticated, parsed \in BOOLEAN :
       \E req \in Body(parsed, InvitationRequests), bytes \in Body(parsed, RandomBytes4) :
        LET r == ServerCreateInvitation(db, m.user_id, parsed, req.email, req.type,
                                        req.list_id, bytes, fresh.invitation, now)
        IN  /\ r.status = 201 => fresh.invitation <= MaxInvitations
            /\ Respond("CreateInvitation", <<m.user_id, req.email, req.type, req.list_id>>, r)
            /\ fresh' = IF r.status = 201
                        THEN [fresh EXCEPT !.invitation = @ + 1] ELSE fresh
    /\ UNCHANGED <<now, ticks, verified, tokens, inflight>>

GetInvitationsReq ==
    /\ Serving
    /\ \E m \in Authenticated : Respond("GetInvitations", <<m.user_id>>, GetInvitations(db, m.user_id))
    /\ UNCHANGED <<now, ticks, fresh, verified, tokens, inflight>>

DeleteInvitation ==
    /\ Serving
    /\ \E m \in Authenticated, invitationID \in InvitationIDs :
        Respond("RevokeInvitation", <<m.user_id, invitationID>>, ServerRevokeInvitation(db, m.user_id, invitationID))
    /\ UNCHANGED <<now, ticks, fresh, verified, tokens, inflight>>

(* The handlers statement by statement: the server runs each request in   *)
(* its own goroutine and none of these handlers opens a transaction, so    *)
(* the statements of requests on different connections interleave.  A      *)
(* request that fails before its first write is answered in one step and   *)
(* does not hold its connection.                                           *)
Done(op, args, status) == [op |-> op, pc |-> "Done", args |-> args, status |-> status]

VerifyLoginSteps ==
    \E s \in Slots :
        \/ /\ inflight[s].pc \in {"Idle", "Done"}
           /\ \E email \in Emails, code \in Codes :
                LET links == ValidMagicLinks(db, email, code, now)
                IN  IF links = {}
                    THEN /\ Respond("VerifyLogin", <<email, code>>,
                                    Reply(db, 401, "Invalid or expired code"))
                         /\ inflight' = inflight
                    ELSE /\ inflight' = [inflight EXCEPT
                                ![s] = [op |-> "VerifyLogin", pc |-> "Save",
                                        args |-> <<email, code>>,
                                        magicLink |-> CHOOSE m \in links : TRUE]]
                         /\ UNCHANGED <<db, resp>>
           /\ UNCHANGED <<now, ticks, fresh, verified, tokens>>
        \/ /\ inflight[s].op = "VerifyLogin" /\ inflight[s].pc = "Save"
           /\ db' = MarkMagicLinkUsed(db, inflight[s].magicLink)
           /\ inflight' = [inflight EXCEPT ![s].pc = "User"]
           /\ UNCHANGED <<now, ticks, fresh, resp, verified, tokens>>
        \/ /\ inflight[s].op = "VerifyLogin" /\ inflight[s].pc = "User"
           /\ LET email == inflight[s].args[1]
                  code == inflight[s].args[2]
              IN  \E v \in ResolveUser(db, email, now, fresh.user) :
                  \E r \in AnswerLogin(v, email, fresh.list, now) :
                    /\ r.db.lists = db.lists \/ fresh.list <= MaxLists
                    /\ Respond("VerifyLogin", <<email, code>>, r)
                    /\ fresh' = [fresh EXCEPT
                                    !.user = IF r.db.users # db.users THEN @ + 1 ELSE @,
                                    !.list = IF r.db.lists # db.lists THEN @ + 1 ELSE @]
                    /\ verified' =
                        IF r.user = NoUser THEN verified
                        ELSE {x \in verified : ~(x.email = email /\ x.code = code)}
                                \cup {[email |-> email, code |-> code, reissued |-> FALSE]}
                    /\ tokens' = IF r.status = 200
                                  THEN tokens \cup {GenerateJWT(r.user, now, JWTSecret)}
                                  ELSE tokens
                    /\ inflight' = [inflight EXCEPT
                            ![s] = Done("VerifyLogin", <<email, code>>, r.status)]
           /\ UNCHANGED <<now, ticks>>

CreateInvitationSteps ==
    \E s \in Slots :
        \/ /\ inflight[s].pc \in {"Idle", "Done"}
           /\ \E m \in Authenticated, req \in InvitationRequests, bytes \in RandomBytes4 :
                LET args == <<m.user_id, req.email, req.type, req.list_id>>
                    r == ServerCreateInvitation(db, m.user_id, TRUE, req.email, req.type,
                                                req.list_id, bytes, fresh.invitation, now)
                IN  IF r.err \notin {NoErr, "UNIQUE constraint failed: invitations.code"}
                    THEN /\ Respond("CreateInvitation", args, r)
                         /\ inflight' = inflight
                    ELSE /\ inflight' = [inflight EXCEPT
                                ![s] = [op |-> "CreateInvitation", pc |-> "Delete",
                                        args |-> args, bytes |-> bytes]]
                         /\ UNCHANGED <<db, resp>>
           /\ UNCHANGED <<now, ticks, fresh, verified, tokens>>
        \/ /\ inflight[s].op = "CreateInvitation" /\ inflight[s].pc = "Delete"
           /\ db' = DeleteUnusedInvitations(db, inflight[s].args[2])
           /\ inflight' = [inflight EXCEPT ![s].pc = "Create"]
           /\ UNCHANGED <<now, ticks, fresh, resp, verified, tokens>>
        \/ /\ inflight[s].op = "CreateInvitation" /\ inflight[s].pc = "Create"
           /\ fresh.invitation <= MaxInvitations
           /\ LET args == inflight[s].args
                  invitation ==
                    [id |-> fresh.invitation,
                     code |-> GenerateInvitationCode(inflight[s].bytes),
                     email |-> args[2], type |-> args[3], list_id |-> args[4],
                     invited_by |-> args[1], expires_at |-> now + InvitationTTL,
                     used |-> FALSE]
                  r == IF \E i \in db.invitations : i.code = invitation.code
                       THEN Reply(db, 400, "UNIQUE constraint failed: invitations.code")
                       ELSE Reply([db EXCEPT !.invitations = @ \cup {invitation}],
                                  201, NoErr)
              IN  /\ Respond("CreateInvitation", args, r)
                  /\ fresh' = IF r.status = 201
                              THEN [fresh EXCEPT !.invitation = @ + 1] ELSE fresh
                  /\ inflight' = [inflight EXCEPT
                        ![s] = Done("CreateInvitation", args, r.status)]
           /\ UNCHANGED <<now, ticks, verified, tokens>>

CreateListSteps ==
    \E s \in Slots :
        \/ /\ inflight[s].pc \in {"Idle", "Done"}
           /\ \E m \in Authenticated, name \in ListNames :
                LET r == ServerCreateList(db, m.user_id, TRUE, name, fresh.list)
                    list == [id |-> fresh.list, name |-> TrimSpace(name),
                             owner_id |-> m.user_id]
                IN  IF r.status # 201
                    THEN /\ Respond("CreateList", <<m.user_id, name>>, r)
                         /\ inflight' = inflight
                         /\ fresh' = fresh
                    ELSE /\ fresh.list <= MaxLists
                         /\ db' = [db EXCEPT !.lists = @ \cup {list}]
                         /\ fresh' = [fresh EXCEPT !.list = @ + 1]
                         /\ inflight' = [inflight EXCEPT
                                ![s] = [op |-> "CreateList", pc |-> "Member",
                                        args |-> <<m.user_id, name>>, list |-> list]]
                         /\ resp' = resp
           /\ UNCHANGED <<now, ticks, verified, tokens>>
        \/ /\ inflight[s].op = "CreateList" /\ inflight[s].pc = "Member"
           /\ LET list == inflight[s].list
                  member == [list_id |-> list.id, user_id |-> list.owner_id,
                             role |-> "owner"]
              IN  /\ Respond("CreateList", inflight[s].args,
                             Reply([db EXCEPT !.members = @ \cup {member}], 201, NoErr))
                  /\ inflight' = [inflight EXCEPT
                        ![s] = Done("CreateList", inflight[s].args, 201)]
           /\ UNCHANGED <<now, ticks, fresh, verified, tokens>>

DeleteListSteps ==
    \E s \in Slots :
        \/ /\ inflight[s].pc \in {"Idle", "Done"}
           /\ \E m \in Authenticated, listID \in ListIDs :
                LET r == ServerDeleteList(db, m.user_id, listID)
                IN  IF r.status = 403 /\ r.db = db
                    THEN /\ Respond("DeleteList", <<m.user_id, listID>>, r)
                         /\ inflight' = inflight
                    ELSE /\ inflight' = [inflight EXCEPT
                                ![s] = [op |-> "DeleteList", pc |-> "Members",
                                        args |-> <<m.user_id, listID>>]]
                         /\ UNCHANGED <<db, resp>>
           /\ UNCHANGED <<now, ticks, fresh, verified, tokens>>
        \/ /\ inflight[s].op = "DeleteList" /\ inflight[s].pc = "Members"
           /\ db' = [db EXCEPT !.members = {m \in @ : m.list_id # inflight[s].args[2]}]
           /\ inflight' = [inflight EXCEPT ![s].pc = "Items"]
           /\ UNCHANGED <<now, ticks, fresh, resp, verified, tokens>>
        \/ /\ inflight[s].op = "DeleteList" /\ inflight[s].pc = "Items"
           /\ db' = [db EXCEPT !.items = {i \in @ : i.list_id # inflight[s].args[2]}]
           /\ inflight' = [inflight EXCEPT ![s].pc = "List"]
           /\ UNCHANGED <<now, ticks, fresh, resp, verified, tokens>>
        \/ /\ inflight[s].op = "DeleteList" /\ inflight[s].pc = "List"
           /\ LET listID == inflight[s].args[2]
                  r == IF ~\E l \in db.lists : l.id = listID
                       THEN Reply(db, 403, "list not found")
                       ELSE Reply([db EXCEPT !.lists = {l \in @ : l.id # listID}],
                                  204, NoErr)
              IN  /\ Respond("DeleteList", inflight[s].args, r)
                  /\ inflight' = [inflight EXCEPT
                        ![s] = Done("DeleteList", inflight[s].args, r.status)]
           /\ UNCHANGED <<now, ticks, fresh, verified, tokens>>

CreateListItemSteps ==
    \E s \in Slots :
        \/ /\ inflight[s].pc \in {"Idle", "Done"}
           /\ \E m \in Authenticated, listID \in ListIDs, name \in ItemNames :
                LET args == <<m.user_id, listID, name>>
                    r == CreateListItem(db, m.user_id, listID, TRUE, name, <<>>, fresh.item)
                IN  IF r.status # 201
                    THEN /\ Respond("CreateListItem", args, r)
                         /\ inflight' = inflight
                    ELSE /\ inflight' = [inflight EXCEPT
                                ![s] = [op |-> "CreateListItem", pc |-> "Create",
                                        args |-> args]]
                         /\ UNCHANGED <<db, resp>>
           /\ UNCHANGED <<now, ticks, fresh, verified, tokens>>
        \/ /\ inflight[s].op = "CreateListItem" /\ inflight[s].pc = "Create"
           /\ fresh.item <= MaxItems
           /\ LET args == inflight[s].args
                  item == [id |-> fresh.item, list_id |-> args[2], name |-> args[3],
                           completed |-> FALSE, tags |-> <<"[]">>]
              IN  /\ Respond("CreateListItem", args,
                             Reply([db EXCEPT !.items = @ \cup {item}], 201, NoErr))
                  /\ inflight' = [inflight EXCEPT
                        ![s] = Done("CreateListItem", args, 201)]
           /\ fresh' = [fresh EXCEPT !.item = @ + 1]
           /\ UNCHANGED <<now, ticks, verified, tokens>>

TickAuth == Tick({MagicLinkTTL, InvitationTTL})

(* The clock passes the lifetime of the sessions issued so far, once *)
TickJWT == now < JWTTTL /\ Tick({JWTTTL})

Next ==
    \/ TickAuth
    \/ TickJWT
    \/ RunSetup
    \/ Migrate
    \/ Rejected
    \/ PostAuthLogin
    \/ PostAuthVerify
    \/ GetListsReq
    \/ PostLists
    \/ GetListReq
    \/ PutList
    \/ DeleteListReq
    \/ GetListMembersReq
    \/ DeleteListMember
    \/ GetListItemsReq
    \/ PostListItem
    \/ PutListItem
    \/ PostListItemToggle
    \/ DeleteListItemReq
    \/ PostInvitations
    \/ GetInvitationsReq
    \/ DeleteInvitation
    \/ VerifyLoginSteps
    \/ CreateInvitationSteps
    \/ CreateListSteps
    \/ DeleteListSteps
    \/ CreateListItemSteps

Spec == Init /\ [][Next]_vars

(* Sign-up and sign-in: setup, login codes, invitations, verification *)
NextAuth ==
    \/ TickAuth
    \/ RunSetup
    \/ PostAuthLogin
    \/ PostAuthVerify
    \/ PostInvitations
    \/ DeleteInvitation

SpecAuth == Init /\ [][NextAuth]_vars

(* The server after setup, the administrator's sign-in, a server           *)
(* invitation to the second address and its sign-in, and a list invitation *)
(* to the administrator's list and the sign-in that accepts it: two users, *)
(* each owning a list, the second a plain member of the first's list.      *)
SignedIn(d, email, bytes, uid, lid, t) ==
    CHOOSE r \in VerifyLogin(RequestLogin(d, TRUE, email, bytes, TRUE, t).db,
                             TRUE, email, GenerateCode(bytes), uid, lid, t) : TRUE

Invited(d, userID, email, invType, listID, bytes, id, t) ==
    ServerCreateInvitation(d, userID, TRUE, email, invType, listID, bytes, id, t).db

TwoUsers ==
    LET installed == SetupSystem(EmptyDB, 1, 1, 1, 0).db
        admin == SignedIn(installed, 1, <<0, 0, 1>>, 2, 2, 0)
        joined == SignedIn(Invited(admin.db, 1, 2, "server", NULL, <<171, 205, 0, 1>>, 1, 0),
                           2, <<18, 214, 135>>, 2, 2, 0)
        shared == SignedIn(Invited(joined.db, 1, 2, "list", 1, <<0, 0, 0, 255>>, 2, 0),
                           2, <<18, 214, 135>>, 3, 3, 0)
    IN  [db |-> shared.db,
         tokens |-> {GenerateJWT(r.user, 0, JWTSecret) : r \in {admin, joined, shared}},
         status |-> shared.status, err |-> shared.err]

InitLists ==
    /\ db = TwoUsers.db
    /\ now = 0
    /\ ticks = 0
    /\ fresh = [user |-> 3, list |-> 3, invitation |-> 3, item |-> 1, login |-> 4]
    /\ resp = [op |-> "VerifyLogin", args |-> <<2, GenerateCode(<<18, 214, 135>>)>>,
               status |-> TwoUsers.status, err |-> TwoUsers.err]
    /\ verified = {[email |-> 1, code |-> GenerateCode(<<0, 0, 1>>), reissued |-> FALSE],
                   [email |-> 2, code |-> GenerateCode(<<18, 214, 135>>), reissued |-> FALSE]}
    /\ tokens = TwoUsers.tokens
    /\ inflight = [s \in Slots |-> Idle]

(* Lists, members and items behind the middleware, while sessions expire *)
NextLists ==
    \/ TickJWT
    \/ Rejected
    \/ PostLists
    \/ PutList
    \/ DeleteListReq
    \/ DeleteListMember
    \/ GetListItemsReq
    \/ PostListItem
    \/ PutListItem
    \/ PostListItemToggle
    \/ DeleteListItemReq

SpecLists == InitLists /\ [][NextLists]_vars

(* Reading lists while members leave and lists come and go *)
NextRead ==
    \/ GetListsReq
    \/ GetListReq
    \/ GetListMembersReq
    \/ PostLists
    \/ DeleteListReq
    \/ DeleteListMember

SpecRead == InitLists /\ [][NextRead]_vars

(* The stores the version without lists and invitations left behind: its  *)
(* users, created at any of the earlier times under any of the ids, and    *)
(* its items, which name their user                                        *)
LegacyTimes == {0, 1}

LegacyUser(id, t) == [id |-> id, email |-> id, invited_by |-> NULL, created_at |-> t]

LegacyItems ==
    {{}, {[id |-> 1, user_id |-> 1, list_id |-> NULL, name |-> <<"Milk">>,
           completed |-> FALSE, tags |-> <<"[]">>]}}

LegacyStores ==
    {EmptyDB}
        \cup {[EmptyDB EXCEPT !.users = {LegacyUser(1, t)}, !.items = items] :
                    t \in LegacyTimes, items \in LegacyItems}
        \cup {[EmptyDB EXCEPT !.users = {LegacyUser(1, t1), LegacyUser(2, t2)},
                               !.items = items] :
                    t1 \in LegacyTimes, t2 \in LegacyTimes, items \in LegacyItems}

InitSetup ==
    /\ db \in LegacyStores
    /\ now = Cardinality(LegacyTimes)
    /\ ticks = 0
    /\ fresh = [user |-> NumEmails + 1, list |-> 1, invitation |-> 1,
                item |-> 2, login |-> 1]
    /\ resp = [op |-> "", args |-> <<>>, status |-> 0, err |-> NoErr]
    /\ verified = {}
    /\ tokens = {}
    /\ inflight = [s \in Slots |-> Idle]

(* Installing the server, on a new store or over the data of the version   *)
(* without lists, and the first sign-ins                                   *)
NextSetup ==
    \/ RunSetup
    \/ Migrate
    \/ PostAuthLogin
    \/ PostAuthVerify

SpecSetup == InitSetup /\ [][NextSetup]_vars

(* The server after setup and the administrator's sign-in *)
InitAdmin ==
    LET installed == SetupSystem(EmptyDB, 1, 1, 1, 0).db
        admin == SignedIn(installed, 1, <<0, 0, 1>>, 2, 2, 0)
    IN  /\ db = admin.db
        /\ now = 0
        /\ ticks = 0
        /\ fresh = [user |-> 2, list |-> 2, invitation |-> 1, item |-> 1, login |-> 2]
        /\ resp = [op |-> "VerifyLogin", args |-> <<1, GenerateCode(<<0, 0, 1>>)>>,
                   status |-> admin.status, err |-> admin.err]
        /\ verified = {[email |-> 1, code |-> GenerateCode(<<0, 0, 1>>),
                        reissued |-> FALSE]}
        /\ tokens = {GenerateJWT(admin.user, 0, JWTSecret)}
        /\ inflight = [s \in Slots |-> Idle]

(* Invitations, sign-ins and the requests that change lists and their      *)
(* members, one request at a time                                          *)
NextJoin ==
    \/ PostInvitations
    \/ PostAuthLogin
    \/ PostAuthVerify
    \/ PostLists
    \/ PutList
    \/ DeleteListReq
    \/ DeleteListMember

SpecJoin == InitAdmin /\ [][NextJoin]_vars

(* Invitations and sign-ins while codes and invitations expire *)
NextInvite ==
    \/ TickAuth
    \/ PostInvitations
    \/ PostAuthLogin
    \/ PostAuthVerify

SpecInvite == InitAdmin /\ [][NextInvite]_vars

(* Sign-ins and invitations on two connections *)
NextRaceAuth ==
    \/ PostAuthLogin
    \/ VerifyLoginSteps
    \/ CreateInvitationSteps

SpecRaceAuth == InitAdmin /\ [][NextRaceAuth]_vars

(* The server after the administrator invited the second address to the   *)
(* list of the setup and that address asked for a login code; one more     *)
(* login request is served from here.                                      *)
InitInvited ==
    LET installed == SetupSystem(EmptyDB, 1, 1, 1, 0).db
        admin == SignedIn(installed, 1, <<0, 0, 1>>, 2, 2, 0)
        invited == Invited(admin.db, 1, 2, "list", 1, <<0, 0, 0, 255>>, 1, 0)
        asked == RequestLogin(invited, TRUE, 2, <<18, 214, 135>>, TRUE, 0)
    IN  /\ db = asked.db
        /\ now = 0
        /\ ticks = 0
        /\ fresh = [user |-> 2, list |-> 2, invitation |-> 2, item |-> 1, login |-> 2]
        /\ resp = [op |-> "RequestLogin", args |-> <<2, GenerateCode(<<18, 214, 135>>)>>,
                   status |-> asked.status, err |-> asked.err]
        /\ verified = {[email |-> 1, code |-> GenerateCode(<<0, 0, 1>>),
                        reissued |-> FALSE]}
        /\ tokens = {GenerateJWT(admin.user, 0, JWTSecret)}
        /\ inflight = [s \in Slots |-> Idle]

SpecRaceInvited == InitInvited /\ [][NextRaceAuth]_vars

(* GenerateCode on bytes that give values below and above 999999 *)
CodeBytes == {0, 1, 15, 66, 152, 255}

Generate ==
    /\ \E b1 \in CodeBytes, b2 \in CodeBytes, b3 \in CodeBytes :
        resp' = [op |-> "GenerateCode",
                 args |-> <<<<b1, b2, b3>>, GenerateCode(<<b1, b2, b3>>)>>,
                 status |-> 0, err |-> NoErr]
    /\ UNCHANGED <<db, now, ticks, fresh, verified, tokens, inflight>>

SpecCodes == Init /\ [][Generate]_vars

(* Lists and items on two connections *)
NextRaceLists ==
    \/ CreateListSteps
    \/ DeleteListSteps
    \/ CreateListItemSteps

SpecRaceLists == InitAdmin /\ [][NextRaceLists]_vars

---------------------------------------------------------------------------
(* Properties of sign-in and invitations, checked under SpecAuth *)

UserIDs == 0..NumEmails

(* The addresses an invitation can name: those that sign in, and one more *)
Addresses == 1..(NumEmails + 1)

Unexpired(row) == row.expires_at > now

(* C1: verification creates a User only when an unused, unexpired          *)
(* invitation for the email exists at that moment, and the new User's      *)
(* invited_by is that invitation's inviter; with a valid code, no User and *)
(* no such invitation it fails with "invitation required" and creates no   *)
(* User; every User but the one made by SetupSystem was invited by the     *)
(* inviter of an invitation that was unexpired when the User was created.  *)
C1_UserOnlyByInvitation ==
    /\ \A email \in Emails, code \in Codes :
        \A r \in VerifyMagicLinkWithInvitation(db, email, code, now, fresh.user) :
            LET pending == {i \in db.invitations :
                                i.email = email /\ ~i.used /\ Unexpired(i)}
                known == \E u \in db.users : u.email = email
                matching == \E m \in db.magic_links :
                                m.email = email /\ m.code = code /\ ~m.used /\ Unexpired(m)
            IN  /\ r.db.users # db.users =>
                    \E i \in pending :
                        r.db.users = db.users \cup
                            {[id |-> fresh.user, email |-> email,
                              invited_by |-> i.invited_by, created_at |-> now]}
                /\ (matching /\ ~known /\ pending = {}) =>
                    /\ r.err = "invitation required for new users"
                    /\ r.db.users = db.users
    /\ \A u \in db.users :
        (\A s \in db.settings : s.initial_admin # u.id) =>
            \E i \in db.invitations :
                /\ i.email = u.email
                /\ i.invited_by = u.invited_by
                /\ i.expires_at > u.created_at

C1_Witness ==
    /\ resp.op = "VerifyLogin"
    /\ resp.status = 200
    /\ \E u \in db.users :
        /\ u.email = resp.args[1]
        /\ u.created_at = now
        /\ u.invited_by # NULL
        /\ \E i \in db.invitations :
            i.email = u.email /\ i.used /\ i.invited_by = u.invited_by

C3_OnlySecondCodeVerifies ==
    /\ \A email \in Emails :
        Cardinality({m \in db.magic_links : m.email = email}) <= 1
    /\ \A email \in Emails, bytes1 \in RandomBytes3, bytes2 \in RandomBytes3 :
        LET first == CreateMagicLink(db, email, bytes1, now)
            second == CreateMagicLink(first.db, email, bytes2, now)
            rows == {m \in second.db.magic_links : m.email = email}
            admitted ==
                \/ \E u \in db.users : u.email = email
                \/ \E i \in db.invitations : i.email = email /\ ~i.used /\ Unexpired(i)
        IN  (first.err = NoErr /\ second.err = NoErr) =>
                /\ Cardinality(rows) = 1
                /\ \A m \in rows : m.code = second.code
                /\ admitted =>
                    /\ \A r \in VerifyMagicLinkWithInvitation(
                                    second.db, email, first.code, now, fresh.user) :
                            r.err # NoErr
                    /\ \A r \in VerifyMagicLinkWithInvitation(
                                    second.db, email, second.code, now, fresh.user) :
                            r.err = NoErr

(* C4: VerifyCode(E, C) fails for every stored code whose expires_at has   *)
(* passed, used or not, and that call creates no User and consumes no      *)
(* invitation; the handler answers 401 and leaves the store as it was.     *)
C4_ExpiredCodeFails ==
    \A m \in db.magic_links :
        now > m.expires_at =>
            /\ \A r \in VerifyMagicLinkWithInvitation(db, m.email, m.code, now, fresh.user) :
                /\ r.err # NoErr
                /\ r.db.users = db.users
                /\ r.db.invitations = db.invitations
            /\ \A r \in VerifyLogin(db, TRUE, m.email, m.code, fresh.user, fresh.list, now) :
                r.status = 401 /\ r.db = db

C4_Witness ==
    /\ resp.op = "VerifyLogin"
    /\ resp.status = 401
    /\ \E u \in db.users : u.email = resp.args[1]
    /\ \E m \in db.magic_links :
        m.email = resp.args[1] /\ m.code = resp.args[2] /\ ~m.used /\ now > m.expires_at

(* C6: there is at most one unused invitation per email, whatever its      *)
(* kind, and a successful CreateInvitation for an email leaves exactly one *)
(* unused invitation for it, the new one.                                  *)
C6_OneUnusedInvitationPerEmail ==
    /\ \A email \in Emails :
        Cardinality({i \in db.invitations : i.email = email /\ ~i.used}) <= 1
    /\ \A inviter \in UserIDs, req \in InvitationRequests, bytes \in RandomBytes4 :
        LET r == CreateInvitation(db, inviter, req.email, req.type, req.list_id,
                                  bytes, fresh.invitation, now)
        IN  r.err = NoErr =>
                /\ r.invitation.id = fresh.invitation
                /\ {i \in r.db.invitations : i.email = req.email /\ ~i.used} = {r.invitation}

C6_Witness ==
    /\ resp.op = "CreateInvitation"
    /\ resp.status = 201
    /\ resp.args[3] = "list"
    /\ \E i \in db.invitations :
        /\ i.id = 2
        /\ i.type = "list"
        /\ {j \in db.invitations : j.email = resp.args[2] /\ ~j.used} = {i}
    /\ \A j \in db.invitations : j.id # 1

(* C9: CreateInvitation with kind=list fails, creating and deleting no     *)
(* invitation, unless a list id is given and the inviter holds a           *)
(* role=owner membership on that list.                                     *)
C9_ListInvitationNeedsOwner ==
    \A inviter \in UserIDs, email \in Addresses, listID \in ListIDs \cup {NULL},
       bytes \in RandomBytes4 :
        LET r == CreateInvitation(db, inviter, email, "list", listID, bytes,
                                  fresh.invitation, now)
            owner == /\ listID # NULL
                     /\ \E m \in db.members :
                            m.list_id = listID /\ m.user_id = inviter /\ m.role = "owner"
        IN  ~owner => r.err # NoErr /\ r.invitation = NoInvitation /\ r.db = db

C9_Witness ==
    /\ resp.op = "CreateInvitation"
    /\ resp.status = 400
    /\ resp.args[3] = "list"
    /\ resp.err = "user is not the owner of this list"
    /\ \E m \in db.members :
        m.list_id = resp.args[4] /\ m.user_id = resp.args[1] /\ m.role = "member"

(* C10: CreateInvitation with kind=server fails with "user already exists" *)
(* whenever a User with the target email exists, and then no invitation is *)
(* created and none is deleted.                                            *)
C10_ServerInvitationForKnownUser ==
    \A inviter \in UserIDs, email \in Addresses, listID \in ListIDs \cup {NULL},
       bytes \in RandomBytes4 :
        (\E u \in db.users : u.email = email) =>
            LET r == CreateInvitation(db, inviter, email, "server", listID, bytes,
                                      fresh.invitation, now)
            IN  r.err = "user already exists" /\ r.invitation = NoInvitation /\ r.db = db

C10_Witness ==
    /\ resp.op = "CreateInvitation"
    /\ resp.status = 400
    /\ resp.args[3] = "server"
    /\ resp.err = "user already exists"
    /\ \E i \in db.invitations : i.email = resp.args[2] /\ ~i.used

---------------------------------------------------------------------------
(* Properties of lists, items and the middleware, checked under SpecLists *)

Owners(d, listID) == {m \in d.members : m.list_id = listID /\ m.role = "owner"}

(* The store with one more owner row, as a direct insert makes it *)
WithOwner(d, listID, userID) ==
    [d EXCEPT !.members = {m \in @ : ~(m.list_id = listID /\ m.user_id = userID)}
                            \cup {[list_id |-> listID, user_id |-> userID, role |-> "owner"]}]

(* C5: every existing list has at least one role=owner member;             *)
(* RemoveMember(L, o, o) is rejected with the last-owner error and leaves  *)
(* the store unchanged when o is the only owner of L, and succeeds,        *)
(* removing o's row only, when another owner exists.                       *)
C5_LastOwnerStays ==
    /\ \A l \in db.lists : Owners(db, l.id) # {}
    /\ \A l \in db.lists, o \in UserIDs :
        (\A m \in Owners(db, l.id) : m.user_id = o) =>
            LET r == RemoveMemberFromList(db, l.id, o, o)
                h == RemoveListMember(db, o, l.id, o)
            IN  /\ r.err = "cannot remove the last owner from the list"
                /\ r.db = db
                /\ h.status = 403 /\ h.db = db
    /\ \A l \in db.lists, o \in UserIDs, p \in UserIDs :
        (Owners(db, l.id) # {} /\ (\A m \in Owners(db, l.id) : m.user_id = o)
            /\ p # o /\ p # 0) =>
            LET two == WithOwner(db, l.id, p)
                r == RemoveMemberFromList(two, l.id, o, o)
            IN  /\ r.err = NoErr
                /\ r.db.members = two.members \
                        {[list_id |-> l.id, user_id |-> o, role |-> "owner"]}
                /\ Owners(r.db, l.id) # {}

C5_Witness ==
    /\ resp.op = "RemoveListMember"
    /\ resp.status = 403
    /\ resp.err = "cannot remove the last owner from the list"
    /\ resp.args[1] = resp.args[3]
    /\ \E m \in db.members : m.list_id = resp.args[2] /\ m.role = "member"
    /\ Owners(db, resp.args[2]) =
            {[list_id |-> resp.args[2], user_id |-> resp.args[1], role |-> "owner"]}

(* What the five item handlers answer to one request *)
ItemResponses(userID, listID, itemID) ==
    {GetListItems(db, userID, listID), ToggleListItem(db, userID, listID, itemID),
     DeleteListItem(db, userID, listID, itemID)}
        \cup {CreateListItem(db, userID, listID, parsed, name, tags, fresh.item) :
                parsed \in BOOLEAN, name \in ItemNames, tags \in ItemTags}
        \cup {UpdateListItem(db, userID, listID, itemID, parsed, name, tags) :
                parsed \in BOOLEAN, name \in ItemNames, tags \in ItemTags}

ItemResponsesNamingAnItem(userID, listID, itemID) ==
    {ToggleListItem(db, userID, listID, itemID), DeleteListItem(db, userID, listID, itemID)}
        \cup {UpdateListItem(db, userID, listID, itemID, parsed, name, tags) :
                parsed \in BOOLEAN, name \in ItemNames, tags \in ItemTags}

(* C7: an item request on /lists/:id/items changes or returns items only   *)
(* when the user has a membership row on list :id, and only items whose    *)
(* list_id is :id; a non-member gets 403 and the store is unchanged; an    *)
(* item of another list is answered with 404 and is not changed.           *)
C7_ItemsBehindMembership ==
    \A userID \in UserIDs, listID \in ListIDs, itemID \in ItemIDs :
        LET member == \E m \in db.members : m.list_id = listID /\ m.user_id = userID
            elsewhere == \E i \in db.items : i.id = itemID /\ i.list_id # listID
        IN  /\ \A r \in ItemResponses(userID, listID, itemID) :
                /\ ~member => r.status = 403 /\ r.db = db
                /\ [r.db EXCEPT !.items = {}] = [db EXCEPT !.items = {}]
                /\ {i \in r.db.items : i.list_id # listID} =
                        {i \in db.items : i.list_id # listID}
            /\ ~member => GetListItems(db, userID, listID).body = {}
            /\ GetListItems(db, userID, listID).body \subseteq
                    {i \in db.items : i.list_id = listID}
            /\ (member /\ elsewhere) =>
                \A r \in ItemResponsesNamingAnItem(userID, listID, itemID) :
                    r.status = 404 /\ r.db = db

C7_Witness ==
    /\ resp.op \in {"UpdateListItem", "ToggleListItem", "DeleteListItem"}
    /\ resp.status = 404
    /\ \E m \in db.members : m.list_id = resp.args[2] /\ m.user_id = resp.args[1]
    /\ \E i \in db.items : i.id = resp.args[3] /\ i.list_id # resp.args[2]

Validates(k) == k.wellFormed /\ k.key = JWTSecret /\ now < k.exp

(* C8: the middleware passes a request exactly when its header is          *)
(* "Bearer " followed by a token that validates, and then hands on the     *)
(* token's user_id and email; otherwise it answers 401 and the store does  *)
(* not change; a handler of a protected route runs only for the user of an *)
(* issued token that validates at that time.                               *)
C8_ProtectedRoutesNeedToken ==
    [][/\ \A h \in AuthHeaders(tokens) :
            LET m == JWTMiddleware(h, now)
            IN  /\ m.status # 401 <=> (h.prefix = "Bearer " /\ Validates(h.token))
                /\ m.status # 401 =>
                    m.user_id = h.token.user_id /\ m.user_email = h.token.email
       /\ resp'.op = "JWTMiddleware" => (resp'.status = 401 /\ db' = db)
       /\ (now' = now /\ resp'.op # "JWTMiddleware") =>
            \E k \in tokens : Validates(k) /\ k.user_id = resp'.args[1]
      ]_vars

C8_Witness ==
    /\ resp.op = "JWTMiddleware"
    /\ resp.status = 401
    /\ resp.err = "Invalid token"
    /\ resp.args = <<"Bearer ", JWTSecret>>
    /\ \A k \in tokens : now >= k.exp
    /\ tokens # {}

---------------------------------------------------------------------------
(* Properties of the invitation service, checked under SpecAuth *)

UpperHex == {HexDigits[i] : i \in 1..Len(HexDigits)}

(* The code as a client may type it: as issued, or in lower case *)
AsTyped(code) == {code, [i \in 1..Len(code) |-> LowerOf(code[i])]}

(* C11 as stated: CreateInvitation with kind=server succeeds whenever no   *)
(* User with the target email exists.                                      *)
C11_SucceedsWithoutUser ==
    \A inviter \in UserIDs, email \in Addresses, bytes \in RandomBytes4 :
        (~\E u \in db.users : u.email = email) =>
            CreateInvitation(db, inviter, email, "server", NULL, bytes,
                             fresh.invitation, now).err = NoErr

(* C11, amended: CreateInvitation with kind=server succeeds whenever no    *)
(* User with the target email exists, no unused server invitation for the  *)
(* email exists and the generated code is not the code of an invitation    *)
(* that stays in the table; it then stores an unused invitation that       *)
(* expires 7 days later and whose code is 8 upper-case hexadecimal         *)
(* characters.                                                             *)
C11_ServerInvitationCreated ==
    \A inviter \in UserIDs, email \in Addresses, bytes \in RandomBytes4 :
        LET r == CreateInvitation(db, inviter, email, "server", NULL, bytes,
                                  fresh.invitation, now)
            known == \E u \in db.users : u.email = email
            invited == \E i \in db.invitations :
                            i.email = email /\ ~i.used /\ i.type = "server"
            taken == \E i \in db.invitations :
                            i.code = r.invitation.code /\ (i.email # email \/ i.used)
        IN  /\ (~known /\ ~invited /\ ~(\E i \in db.invitations :
                    i.code = SprintfX(bytes) /\ (i.email # email \/ i.used))) =>
                    r.err = NoErr
            /\ r.err = NoErr =>
                /\ ~known /\ ~invited /\ ~taken
                /\ r.invitation \in r.db.invitations
                /\ r.invitation.email = email
                /\ r.invitation.type = "server"
                /\ ~r.invitation.used
                /\ r.invitation.invited_by = inviter
                /\ r.invitation.expires_at = now + InvitationTTL
                /\ Len(r.invitation.code) = 8
                /\ \A k \in 1..8 : r.invitation.code[k] \in UpperHex

C11_Witness ==
    /\ resp.op = "CreateInvitation"
    /\ resp.status = 201
    /\ resp.args[3] = "server"
    /\ \E i \in db.invitations :
        /\ i.email = resp.args[2] /\ i.type = "server" /\ ~i.used
        /\ i.invited_by = resp.args[1]
        /\ i.expires_at = now + InvitationTTL
        /\ Len(i.code) = 8
    /\ ~\E u \in db.users : u.email = resp.args[2]

(* C12: AcceptInvitation(email, code) succeeds only for an invitation that *)
(* matches the email and the upper-cased code and is unused and unexpired, *)
(* and marks exactly that invitation used; a second call with the same     *)
(* email and code fails; it succeeds for the code in either letter case.   *)
C12_AcceptOnce ==
    /\ \A email \in Addresses, issued \in InvitationCodes :
        \A code \in AsTyped(issued) :
            \A r \in AcceptInvitation(db, email, code, now) :
                r.err = NoErr =>
                    /\ \E i \in db.invitations :
                        /\ i.email = email /\ i.code = issued
                        /\ ~i.used /\ i.expires_at > now
                        /\ r.invitation = [i EXCEPT !.used = TRUE]
                        /\ r.db = [db EXCEPT !.invitations =
                                        (@ \ {i}) \cup {[i EXCEPT !.used = TRUE]}]
                    /\ \A again \in AsTyped(issued) :
                        \A r2 \in AcceptInvitation(r.db, email, again, now) :
                            r2.err = "invalid or expired invitation" /\ r2.db = r.db
    /\ \A i \in db.invitations :
        (~i.used /\ i.expires_at > now) =>
            \A code \in AsTyped(i.code) :
                \A r \in AcceptInvitation(db, i.email, code, now) : r.err = NoErr

C12_Witness ==
    /\ resp.op = "VerifyLogin"
    /\ resp.status = 200
    /\ \E i \in db.invitations :
        /\ i.email = resp.args[1] /\ i.used /\ i.expires_at > now
        /\ \A code \in AsTyped(i.code) :
            \A r \in AcceptInvitation(db, i.email, code, now) : r.err # NoErr

(* C13: RevokeInvitation(id, u) deletes the invitation if and only if it   *)
(* exists, was created by u and is unused; in every other case it fails    *)
(* with one and the same error and the store is unchanged.                 *)
C13_RevokeOwnUnused ==
    \A id \in 1..(MaxInvitations + 1), u \in UserIDs :
        LET r == RevokeInvitation(db, id, u)
            own == {i \in db.invitations : i.id = id /\ i.invited_by = u /\ ~i.used}
        IN  /\ own # {} =>
                /\ r.err = NoErr
                /\ r.db = [db EXCEPT !.invitations = @ \ own]
            /\ own = {} =>
                /\ r.err = "invitation not found or already used"
                /\ r.db = db

C13_Witness ==
    /\ resp.op = "RevokeInvitation"
    /\ resp.status = 404
    /\ resp.err = "invitation not found or already used"
    /\ \E i \in db.invitations :
        i.id = resp.args[2] /\ i.invited_by = resp.args[1] /\ i.used

---------------------------------------------------------------------------
(* Properties of the list service, checked under SpecLists (AddMember:     *)
(* under SpecAuth, where verification calls it)                            *)

(* The identifiers a caller can present: those of the users, and one more *)
CallerIDs == 1..(NumEmails + 1)

NamesTried == ListNames \cup {<<"Groceries", " ">>, <<" ", "A", " ", "B", " ">>}

IsBlank(name) == \A k \in 1..Len(name) : name[k] = " "

(* n is name without its leading and trailing spaces *)
IsTrimOf(n, name) ==
    /\ n # <<>>
    /\ n[1] # " " /\ n[Len(n)] # " "
    /\ \E a \in 0..Len(name) :
        /\ a + Len(n) <= Len(name)
        /\ n = SubSeq(name, a + 1, a + Len(n))
        /\ \A k \in 1..Len(name) : (k <= a \/ k > a + Len(n)) => name[k] = " "

OwnsList(userID, listID) ==
    \E m \in db.members : m.list_id = listID /\ m.user_id = userID /\ m.role = "owner"

RowsOn(d, listID, userID) ==
    {m \in d.members : m.list_id = listID /\ m.user_id = userID}

(* C14: CreateList(u, name) with a non-blank name and an existing user u   *)
(* creates one list with owner_id = u and exactly one membership row for   *)
(* it, (u, owner); with a blank name, a blank user id or an unknown user   *)
(* it fails and creates neither a list nor a membership row.               *)
C14_ListWithOwnerRow ==
    \A u \in 0..(NumEmails + 1), name \in NamesTried :
        LET r == CreateList(db, u, name, fresh.list)
            known == \E x \in db.users : x.id = u
            row == [list_id |-> fresh.list, user_id |-> u, role |-> "owner"]
        IN  /\ (IsBlank(name) \/ u = 0 \/ ~known) => (r.err # NoErr /\ r.db = db)
            /\ (~IsBlank(name) /\ u # 0 /\ known) =>
                /\ r.err = NoErr
                /\ \E l \in r.db.lists :
                    /\ l \notin db.lists
                    /\ r.db.lists = db.lists \cup {l}
                    /\ l.id = fresh.list /\ l.owner_id = u /\ IsTrimOf(l.name, name)
                /\ r.db.members = db.members \cup {row}
                /\ {m \in r.db.members : m.list_id = fresh.list} = {row}
                /\ [r.db EXCEPT !.lists = {}, !.members = {}] =
                        [db EXCEPT !.lists = {}, !.members = {}]

C14_Witness ==
    /\ resp.op = "CreateList"
    /\ resp.status = 201
    /\ \E l \in db.lists :
        /\ l.id = fresh.list - 1
        /\ l.owner_id = resp.args[1]
        /\ IsTrimOf(l.name, resp.args[2])
        /\ {m \in db.members : m.list_id = l.id} =
                {[list_id |-> l.id, user_id |-> resp.args[1], role |-> "owner"]}

(* C15: RemoveMember(L, u, m) by a u that is neither an owner of L nor m   *)
(* fails with access denied and changes nothing; when it succeeds, u is an *)
(* owner of L or is m, exactly the (L, m) row is removed and nothing else  *)
(* changes; when u is allowed and no (L, m) row exists it fails with       *)
(* member not found.                                                       *)
C15_RemoveOnlyTheRow ==
    \A listID \in ListIDs, u \in CallerIDs, m \in CallerIDs :
        LET r == RemoveMemberFromList(db, listID, u, m)
            allowed == OwnsList(u, listID) \/ u = m
        IN  /\ ~allowed => (r.err = "access denied" /\ r.db = db)
            /\ r.err = NoErr =>
                /\ allowed
                /\ Cardinality(RowsOn(db, listID, m)) = 1
                /\ r.db = [db EXCEPT !.members = @ \ RowsOn(db, listID, m)]
            /\ r.err # NoErr => r.db = db
            /\ (allowed /\ RowsOn(db, listID, m) = {}) => r.err = "member not found"

C15_Witness ==
    /\ resp.op = "RemoveListMember"
    /\ resp.status = 204
    /\ resp.args[1] = resp.args[3]
    /\ RowsOn(db, resp.args[2], resp.args[3]) = {}
    /\ ~OwnsList(resp.args[1], resp.args[2])
    /\ \E m \in db.members : m.list_id = resp.args[2] /\ m.role = "owner"

(* C16: DeleteList(L, u) by a user who is not an owner of L fails and      *)
(* changes nothing; by an owner it removes list L and every membership and *)
(* item row with list_id = L, and no row of any other list.                *)
C16_DeleteListCascades ==
    \A listID \in ListIDs, u \in CallerIDs :
        LET r == DeleteList(db, listID, u)
        IN  /\ ~OwnsList(u, listID) => (r.err # NoErr /\ r.db = db)
            /\ OwnsList(u, listID) =>
                /\ r.err = NoErr
                /\ r.db = [db EXCEPT
                            !.lists = {l \in @ : l.id # listID},
                            !.members = {m \in @ : m.list_id # listID},
                            !.items = {i \in @ : i.list_id # listID}]
                /\ \E l \in db.lists : l.id = listID

C16_Witness ==
    /\ resp.op = "DeleteList"
    /\ resp.status = 204
    /\ ~\E l \in db.lists : l.id = resp.args[2]
    /\ ~\E m \in db.members : m.list_id = resp.args[2]
    /\ fresh.item > 1 /\ db.items = {}
    /\ db.lists # {}

(* C17: AddMember(L, u, n) inserts the row (L, n, member) only when u is   *)
(* an owner of L and n has no row on L; it fails with not-owner when u is  *)
(* no owner and with already-member when n has a row, and then every       *)
(* membership row, the role of n's row included, is unchanged.             *)
C17_AddMemberByOwner ==
    \A listID \in ListIDs, u \in CallerIDs, n \in CallerIDs :
        LET r == AddMemberToList(db, listID, u, n)
        IN  /\ ~OwnsList(u, listID) =>
                (r.err = "only list owners can add members" /\ r.db = db)
            /\ (OwnsList(u, listID) /\ RowsOn(db, listID, n) # {}) =>
                (r.err = "user is already a member of this list" /\ r.db = db)
            /\ (OwnsList(u, listID) /\ RowsOn(db, listID, n) = {}) =>
                /\ r.err = NoErr
                /\ r.db = [db EXCEPT !.members = @ \cup
                            {[list_id |-> listID, user_id |-> n, role |-> "member"]}]

C17_Witness ==
    /\ resp.op = "VerifyLogin"
    /\ resp.status = 200
    /\ \E u \in db.users, i \in db.invitations :
        /\ u.email = resp.args[1]
        /\ i.email = u.email /\ i.type = "list" /\ i.used
        /\ RowsOn(db, i.list_id, u.id) =
                {[list_id |-> i.list_id, user_id |-> u.id, role |-> "member"]}
        /\ OwnsList(i.invited_by, i.list_id)

(* C18: UpdateList(L, u, name) changes the name of L only when u is an     *)
(* owner of L and name is not blank; a non-owner or a blank name yields an *)
(* error and leaves the list row unchanged; membership and item rows are   *)
(* never changed.                                                          *)
C18_UpdateListByOwner ==
    \A listID \in ListIDs, u \in CallerIDs, name \in NamesTried :
        LET r == UpdateList(db, listID, u, name)
        IN  /\ (~OwnsList(u, listID) \/ IsBlank(name)) => (r.err # NoErr /\ r.db = db)
            /\ (OwnsList(u, listID) /\ ~IsBlank(name)) =>
                /\ r.err = NoErr
                /\ \A l \in db.lists : l.id # listID => l \in r.db.lists
                /\ \E l \in db.lists, l2 \in r.db.lists :
                    /\ l.id = listID /\ l2.id = listID
                    /\ IsTrimOf(l2.name, name)
                    /\ l2 = [l EXCEPT !.name = l2.name]
                    /\ r.db.lists = (db.lists \ {l}) \cup {l2}
            /\ [r.db EXCEPT !.lists = {}] = [db EXCEPT !.lists = {}]

C18_Witness ==
    /\ resp.op = "UpdateList"
    /\ resp.status = 200
    /\ OwnsList(resp.args[1], resp.args[2])
    /\ \E l \in db.lists :
        /\ l.id = resp.args[2]
        /\ l.id \in {1, 2}
        /\ l.name # DefaultListName
        /\ IsTrimOf(l.name, resp.args[3])

---------------------------------------------------------------------------
(* Properties of reading lists, checked under SpecRead *)

(* C19: GetListByID(L, u) and GetListMembers(L, u) succeed if and only if  *)
(* u has a membership row of any role on L; GetUserLists(u) returns        *)
(* exactly the lists on which u has a row; none of them changes the store; *)
(* a user whose row was removed is refused from then on.                   *)
C19_ReadFollowsMembership ==
    \A u \in CallerIDs :
        /\ GetUserLists(db, u) = {l \in db.lists : RowsOn(db, l.id, u) # {}}
        /\ GetLists(db, u).db = db
        /\ GetLists(db, u).body = {l \in db.lists : RowsOn(db, l.id, u) # {}}
        /\ \A listID \in ListIDs :
            LET member == RowsOn(db, listID, u) # {}
                one == GetListByID(db, listID, u)
                all == GetListMembers(db, u, listID)
            IN  /\ one.err = NoErr <=> member
                /\ member => (one.list \in db.lists /\ one.list.id = listID)
                /\ GetList(db, u, listID).status = 200 <=> member
                /\ GetList(db, u, listID).db = db
                /\ all.status = 200 <=> member
                /\ all.db = db
                /\ member => all.body = {x \in db.users : RowsOn(db, listID, x.id) # {}}
                /\ ~member => all.body = {}

C19_Witness ==
    /\ resp.op \in {"GetList", "GetListMembers"}
    /\ resp.status \in {403, 404}
    /\ resp.args = <<2, 1>>
    /\ \E l \in db.lists : l.id = 1
    /\ RowsOn(db, 1, 2) = {}
    /\ RowsOn(TwoUsers.db, 1, 2) # {}

---------------------------------------------------------------------------
(* Properties of POST /auth/verify, checked under SpecAuth *)

(* C20: when verification finds a pending invitation for the email, a 200  *)
(* response implies that the invitation is marked used, that for a server  *)
(* invitation the new user owns a newly created list named                 *)
(* "My Shopping List", and that for a list invitation the user holds a     *)
(* role=member row on the invitation's list.                               *)
C20_InvitationApplied ==
    \A email \in Emails, code \in Codes :
        \A r \in VerifyLogin(db, TRUE, email, code, fresh.user, fresh.list, now) :
            (r.status = 200 /\ r.invitation # NoInvitation) =>
                /\ r.invitation \in db.invitations
                /\ r.invitation.email = email
                /\ ~r.invitation.used /\ r.invitation.expires_at > now
                /\ [r.invitation EXCEPT !.used = TRUE] \in r.db.invitations
                /\ r.invitation \notin r.db.invitations
                /\ r.user \in r.db.users /\ r.user.email = email
                /\ r.invitation.type = "server" =>
                    /\ r.user \notin db.users
                    /\ \E l \in r.db.lists \ db.lists :
                        /\ l.owner_id = r.user.id
                        /\ l.name = <<"My Shopping List">>
                        /\ ~\E old \in db.lists : old.id = l.id
                        /\ {m \in r.db.members : m.list_id = l.id} =
                                {[list_id |-> l.id, user_id |-> r.user.id, role |-> "owner"]}
                /\ r.invitation.type = "list" =>
                    [list_id |-> r.invitation.list_id, user_id |-> r.user.id,
                     role |-> "member"] \in r.db.members

C20_Witness ==
    /\ resp.op = "VerifyLogin"
    /\ resp.status = 200
    /\ \E u \in db.users, i \in db.invitations, l \in db.lists :
        /\ u.email = resp.args[1] /\ u.created_at = now
        /\ i.email = u.email /\ i.type = "server" /\ i.used
        /\ l.owner_id = u.id /\ l.name = <<"My Shopping List">>
        /\ l.id = fresh.list - 1
        /\ OwnsList(u.id, l.id)

---------------------------------------------------------------------------
(* Properties of session tokens, checked under SpecLists *)

Secrets == {JWTSecret, "another-secret"}

(* C21: a token generated for a user validates, with that user's id and   *)
(* email, at every time before 30 days after it was issued, and does not   *)
(* validate from then on; a string that is no token and a token signed     *)
(* with another secret never validate; and whatever the store has become,  *)
(* an issued token validates exactly while it is younger than 30 days.     *)
C21_TokenRoundTrip ==
    /\ \A u \in db.users : \A secret \in Secrets :
        LET token == GenerateJWT(u, now, secret)
        IN  /\ \A t \in {now, now + 1, now + JWTTTL - 1} :
                LET claims == ValidateJWT(token, t)
                IN  IF secret = JWTSecret
                    THEN /\ claims.err = NoErr
                         /\ claims.UserID = u.id
                         /\ claims.Email = u.email
                    ELSE claims.err # NoErr
            /\ \A t \in {now + JWTTTL, now + JWTTTL + 1} :
                ValidateJWT(token, t).err # NoErr
    /\ \A t \in {0, now} :
        /\ ValidateJWT(NoToken, t).err # NoErr
        /\ ValidateJWT(GarbageToken, t).err # NoErr
    /\ \A k \in tokens :
        /\ ValidateJWT(k, now).err = NoErr <=> now < k.iat + JWTTTL
        /\ ValidateJWT([k EXCEPT !.key = "another-secret"], now).err # NoErr

(* The list of the administrator was deleted, and then the tokens issued   *)
(* at the start reached their expiry                                       *)
C21_Witness ==
    /\ resp.op = "DeleteList"
    /\ resp.status = 204
    /\ db.lists # TwoUsers.db.lists
    /\ \E k \in tokens : k.iat + JWTTTL = now

---------------------------------------------------------------------------
(* Properties of the setup service *)

(* C22: a step in which SetupSystem succeeds starts in a store that is not *)
(* set up and adds exactly one user without inviter under the address      *)
(* given, one list "My Shopping List" owned by that user, that user's      *)
(* owner row on that list, and the settings row naming that user, and      *)
(* nothing else; a SetupSystem that fails changes nothing; a store that is *)
(* set up holds the administrator, stays set up in every later state, and  *)
(* makes SetupSystem fail for every address without changing anything.     *)
C22_SetupOnce ==
    [][/\ (resp'.op = "SetupSystem" /\ db' # db) =>
            /\ resp'.err = NoErr
            /\ db.settings = {}
            /\ \E u \in db'.users \ db.users : \E l \in db'.lists \ db.lists :
                /\ db'.users = db.users \cup {u}
                /\ u.invited_by = NULL
                /\ u.email = resp'.args[1]
                /\ db'.lists = db.lists \cup {l}
                /\ l.name = <<"My Shopping List">>
                /\ l.owner_id = u.id
                /\ db'.members \ db.members =
                        {[list_id |-> l.id, user_id |-> u.id, role |-> "owner"]}
                /\ db.members \subseteq db'.members
                /\ db'.settings =
                        {[id |-> "system", is_setup |-> TRUE, initial_admin |-> u.id]}
            /\ db'.items = db.items
            /\ db'.invitations = db.invitations
            /\ db'.magic_links = db.magic_links
       /\ (resp'.op = "SetupSystem" /\ resp'.err # NoErr) => db' = db
       /\ (\E x \in db.settings : x.is_setup) =>
            /\ \E x \in db'.settings : x.is_setup
            /\ \E x \in db.settings : \E u \in db.users :
                    u.id = x.initial_admin /\ u.invited_by = NULL
            /\ \A email \in Addresses :
                    LET r == SetupSystem(db, email, fresh.user, fresh.list, now)
                    IN  r.err # NoErr /\ r.db = db
      ]_vars

(* SetupSystem was called again on a server that has two users *)
C22_Witness ==
    /\ resp.op = "SetupSystem"
    /\ resp.err = "system is already setup"
    /\ Cardinality(db.users) = 2
    /\ Cardinality(db.settings) = 1

(* The addresses of the tests of SetupSystem that are expected to fail:    *)
(* the empty string and "invalid-email"                                    *)
EmptyEmail == 0

InvalidEmail == NumEmails + 2

(* C23: on every store, set up or not, SetupSystem with the empty address  *)
(* or with an address that is not well-formed returns an error and leaves  *)
(* users, lists, members and settings as they were.                        *)
C23_BadEmailRejected ==
    \A email \in {EmptyEmail, InvalidEmail} :
        LET r == SetupSystem(db, email, fresh.user, fresh.list, now)
        IN  /\ r.err # NoErr
            /\ r.db.users = db.users
            /\ r.db.lists = db.lists
            /\ r.db.members = db.members
            /\ r.db.settings = db.settings

(* C24: MigrateExistingData on a store with users and no settings row      *)
(* marks the system set up with initial_admin = the id of a user created   *)
(* no later than any other, and gives every user a list "My Shopping       *)
(* List" with that user's owner row; on a store without users it creates   *)
(* no settings row; on a system that is set up it changes nothing.         *)
C24_MigrationAdoptsOldest ==
    LET ids == {u.id : u \in db.users}
        lids == [u \in ids |-> fresh.list + Cardinality({v \in ids : v < u})]
        r == MigrateExistingData(db, lids)
    IN  /\ (db.users # {} /\ db.settings = {}) =>
                /\ r.err = NoErr
                /\ \E x \in r.db.settings : \E o \in db.users :
                        /\ x.is_setup
                        /\ x.initial_admin = o.id
                        /\ \A u \in db.users : o.created_at <= u.created_at
                /\ \A u \in db.users : \E l \in r.db.lists \ db.lists :
                        /\ l.name = <<"My Shopping List">>
                        /\ l.owner_id = u.id
                        /\ [list_id |-> l.id, user_id |-> u.id, role |-> "owner"]
                                \in r.db.members
        /\ db.users = {} => r.db.settings = {}
        /\ (\E x \in db.settings : x.is_setup) => r.db = db

---------------------------------------------------------------------------
(* Properties of the handlers' answers, checked under SpecAuth *)

---------------------------------------------------------------------------
(* Properties of requests served at the same time, checked under           *)
(* SpecRaceAuth and SpecRaceLists                                          *)

(* C26: of two /auth/verify requests with the same email and code that     *)
(* were served on two connections, at most one was answered 200.           *)
C26_OneVerificationSucceeds ==
    \A a \in Slots, b \in Slots :
        (/\ a # b
         /\ inflight[a].pc = "Done" /\ inflight[b].pc = "Done"
         /\ inflight[a].op = "VerifyLogin" /\ inflight[b].op = "VerifyLogin"
         /\ inflight[a].args = inflight[b].args)
            => ~(inflight[a].status = 200 /\ inflight[b].status = 200)

(* C27: whatever CreateInvitation requests are being served, the store     *)
(* holds at most one unused invitation for each email.                     *)
C27_OneUnusedInvitationUnderRace ==
    \A i \in db.invitations, j \in db.invitations :
        (i.email = j.email /\ ~i.used /\ ~j.used) => i = j

(* C28: in every state of the store that a request can read, each list     *)
(* row has an owner row, unless DeleteList has begun to delete that list.  *)
C28_ListNeverWithoutOwner ==
    \A l \in db.lists :
        \/ \E m \in db.members : m.list_id = l.id /\ m.role = "owner"
        \/ \E s \in Slots :
            /\ inflight[s].op = "DeleteList"
            /\ inflight[s].pc \in {"Items", "List"}
            /\ inflight[s].args[2] = l.id

(* C29: in every state of the store, whatever requests are being served,   *)
(* each item and each member row names a list that exists, and each list   *)
(* has a member row, unless CreateList has not yet added its owner row.    *)
C29_DeleteListAsOneTransaction ==
    /\ \A i \in db.items : \E l \in db.lists : l.id = i.list_id
    /\ \A m \in db.members : \E l \in db.lists : l.id = m.list_id
    /\ \A l \in db.lists :
        \/ \E m \in db.members : m.list_id = l.id
        \/ \E s \in Slots :
            /\ inflight[s].op = "CreateList"
            /\ inflight[s].pc = "Member"
            /\ inflight[s].list.id = l.id

---------------------------------------------------------------------------
(* Properties of invitations to lists that change, checked under SpecJoin  *)

(* C30: a step in which /auth/verify marks a list invitation used ends in  *)
(* a store where the user with the invitation's email has a member row on  *)
(* the invitation's list.                                                  *)
C30_UsedInvitationGivesMembership ==
    [][\A i \in db.invitations :
        (/\ resp'.op = "VerifyLogin"
         /\ i.type = "list" /\ ~i.used
         /\ [i EXCEPT !.used = TRUE] \in db'.invitations)
            => \E u \in db'.users : \E m \in db'.members :
                    /\ u.email = i.email
                    /\ m.user_id = u.id
                    /\ m.list_id = i.list_id
      ]_vars

---------------------------------------------------------------------------
(* Properties of failed operations, checked under SpecAuth                 *)

(* C31 as stated: a VerifyCode call that fails leaves the store unchanged, *)
(* so that a valid code refused with "invitation required" stays unused.   *)
C31_FailedVerifyChangesNothing ==
    \A email \in Emails, code \in Codes :
        \A r \in VerifyMagicLinkWithInvitation(db, email, code, now, fresh.user) :
            r.err # NoErr => r.db = db

(* C31, amended: a VerifyCode call that finds no matching unused,          *)
(* unexpired code leaves the store unchanged; one that finds the code but  *)
(* fails with "invitation required" changes nothing but that code, which   *)
(* it marks used, and the code does not verify once an invitation for the  *)
(* email has been created.                                                 *)
C31_FailedVerifySpendsTheCode ==
    \A email \in Emails, code \in Codes :
        \A r \in VerifyMagicLinkWithInvitation(db, email, code, now, fresh.user) :
            LET matching == {m \in db.magic_links :
                                m.email = email /\ m.code = code /\ ~m.used /\ Unexpired(m)}
            IN  r.err # NoErr =>
                    /\ matching = {} => r.db = db /\ r.err = "record not found"
                    /\ matching # {} =>
                        /\ r.err = "invitation required for new users"
                        /\ r.db = [db EXCEPT !.magic_links =
                                    (@ \ matching) \cup
                                        {[m EXCEPT !.used = TRUE] : m \in matching}]
                        /\ \A u \in db.users, req \in InvitationRequests,
                              bytes \in RandomBytes4 :
                            LET c == CreateInvitation(r.db, u.id, email, req.type,
                                                      req.list_id, bytes,
                                                      fresh.invitation, now)
                            IN  \A again \in VerifyMagicLinkWithInvitation(
                                                c.db, email, code, now, fresh.user) :
                                    again.err = "record not found"

(* A valid code was refused because nobody had invited the address: the    *)
(* code is stored as used although no user has the address.                *)
C31_Witness ==
    /\ resp.op = "VerifyLogin"
    /\ resp.status = 401
    /\ \A u \in db.users : u.email # resp.args[1]
    /\ \E m \in db.magic_links :
        m.email = resp.args[1] /\ m.code = resp.args[2] /\ m.used /\ Unexpired(m)

---------------------------------------------------------------------------
(* Properties of lists and their members, checked under SpecJoin           *)

(* C32: in every state reached by requests served one after the other,     *)
(* each list has exactly one member row with the owner role, and that row  *)
(* names the user in the list's owner_id.                                  *)
C32_OneOwnerPerList ==
    \A l \in db.lists :
        LET owners == {m \in db.members : m.list_id = l.id /\ m.role = "owner"}
        IN  /\ Cardinality(owners) = 1
            /\ \A m \in owners : m.user_id = l.owner_id

(* A list invitation was accepted: a list has a plain member beside its    *)
(* owner.                                                                  *)
C32_Witness ==
    /\ resp.op = "VerifyLogin"
    /\ resp.status = 200
    /\ \E l \in db.lists : \E m \in db.members :
        /\ m.list_id = l.id
        /\ m.role = "member"
        /\ m.user_id # l.owner_id
        /\ \E u \in db.users : u.id = m.user_id /\ u.email = resp.args[1]

---------------------------------------------------------------------------
(* Properties of verification for a registered address, checked under     *)
(* SpecRaceInvited, where a server invitation can be stored for an address *)
(* whose user is created while the invitation is being made                *)

(* C33: for an email that has a User, VerifyCode returns an invitation     *)
(* only if it is a pending invitation of type list for that email; it      *)
(* never returns a server invitation, changes no invitation, and creates   *)
(* or changes no User row.                                                 *)
C33_ExistingUserJoinsListsOnly ==
    \A email \in Emails, code \in Codes :
        (\E u \in db.users : u.email = email) =>
            \A r \in VerifyMagicLinkWithInvitation(db, email, code, now, fresh.user) :
                /\ r.db.users = db.users
                /\ r.db.invitations = db.invitations
                /\ r.invitation # NoInvitation =>
                    /\ r.invitation \in db.invitations
                    /\ r.invitation.email = email
                    /\ r.invitation.type = "list"
                    /\ ~r.invitation.used
                    /\ Unexpired(r.invitation)
                /\ (r.err = NoErr /\ r.invitation = NoInvitation) =>
                    ~\E i \in db.invitations :
                        i.email = email /\ i.type = "list" /\ ~i.used /\ Unexpired(i)

(* A user with a pending server invitation has signed in: the answer is    *)
(* 200 and the invitation is still unused.                                 *)
C33_Witness ==
    /\ resp.op = "VerifyLogin"
    /\ resp.status = 200
    /\ \E u \in db.users :
        /\ u.email = resp.args[1]
        /\ \E m \in db.magic_links :
            m.email = u.email /\ m.code = resp.args[2] /\ m.used /\ m.expires_at > u.created_at
        /\ \E i \in db.invitations :
            i.email = u.email /\ i.type = "server" /\ ~i.used /\ Unexpired(i)
        /\ \E i \in db.invitations :
            i.email = u.email /\ i.type = "list" /\ i.used

---------------------------------------------------------------------------
(* Properties of CreateInvitation, checked under SpecInvite                *)

(* C34 as stated: CreateInvitation for email E and kind K fails with       *)
(* "already invited", leaving the invitations unchanged, whenever an       *)
(* unused invitation of kind K for E exists; when the only unused          *)
(* invitation for E is of the other kind it succeeds and that invitation   *)
(* is deleted.                                                             *)
C34_AlreadyInvitedByKind ==
    \A u \in db.users, email \in Addresses, invType \in {"server", "list"},
       list \in ListIDs, bytes \in RandomBytes4 :
        LET listID == IF invType = "list" THEN list ELSE NULL
            r == CreateInvitation(db, u.id, email, invType, listID, bytes,
                                  fresh.invitation, now)
            same == {i \in db.invitations :
                        i.email = email /\ ~i.used /\ i.type = invType}
            other == {i \in db.invitations :
                        i.email = email /\ ~i.used /\ i.type # invType}
        IN  /\ same # {} =>
                r.err = "user is already invited" /\ r.db.invitations = db.invitations
            /\ (same = {} /\ other # {}) =>
                r.err = NoErr /\ r.db.invitations \cap other = {}

(* C34, amended: when the checks that come first pass (a list invitation   *)
(* names a list the inviter owns and of which the user with the email is   *)
(* not a member, a server invitation names an email without a User),       *)
(* CreateInvitation fails with "already invited" and changes nothing if an *)
(* unused invitation of kind K for E exists, expired or not; if the only   *)
(* unused invitations for E are of the other kind it deletes them, whoever *)
(* created them, and stores the new invitation unless the generated code   *)
(* is the code of an invitation that stays in the table, in which case it  *)
(* fails after the deletion.  When an earlier check fails it fails with    *)
(* that check's error and changes nothing.                                 *)
C34_AlreadyInvitedAfterOtherChecks ==
    /\ \A u \in db.users, email \in Addresses, invType \in {"server", "list"},
          list \in ListIDs, bytes \in RandomBytes4 :
        LET listID == IF invType = "list" THEN list ELSE NULL
            r == CreateInvitation(db, u.id, email, invType, listID, bytes,
                                  fresh.invitation, now)
            same == {i \in db.invitations :
                        i.email = email /\ ~i.used /\ i.type = invType}
            other == {i \in db.invitations :
                        i.email = email /\ ~i.used /\ i.type # invType}
            known == {v \in db.users : v.email = email}
            passes ==
                IF invType = "list"
                THEN /\ \E m \in db.members :
                            m.list_id = listID /\ m.user_id = u.id /\ m.role = "owner"
                     /\ ~\E v \in known : \E m \in db.members :
                            m.list_id = listID /\ m.user_id = v.id
                ELSE known = {}
            taken == \E i \in db.invitations \ other : i.code = SprintfX(bytes)
        IN  /\ ~passes =>
                r.err \notin {NoErr, "user is already invited"} /\ r.db = db
            /\ (passes /\ same # {}) =>
                r.err = "user is already invited" /\ r.db = db
            /\ (passes /\ same = {} /\ taken) =>
                r.err # NoErr /\ r.db.invitations = db.invitations \ other
            /\ (passes /\ same = {} /\ ~taken) =>
                /\ r.err = NoErr
                /\ r.db.invitations = (db.invitations \ other) \cup {r.invitation}
                /\ r.invitation.email = email
                /\ r.invitation.type = invType
                /\ r.invitation.invited_by = u.id
                /\ ~r.invitation.used
    /\ \A a \in db.users, b \in db.users, first \in {"server", "list"}, list \in ListIDs,
          bytes \in RandomBytes4 :
        LET email == NumEmails + 1
            second == CHOOSE k \in {"server", "list"} : k # first
            r1 == CreateInvitation(db, a.id, email, first,
                                   IF first = "list" THEN list ELSE NULL,
                                   <<222, 173, 190, 239>>,
                                   fresh.invitation, now)
        IN  \A other \in ListIDs :
            LET r2 == CreateInvitation(r1.db, b.id, email, second,
                                       IF second = "list" THEN other ELSE NULL,
                                       bytes, fresh.invitation + 1, now)
            IN  (r1.err = NoErr /\ r2.err = NoErr) =>
                    /\ r1.invitation \notin r2.db.invitations
                    /\ r2.db.invitations =
                        (db.invitations \ {i \in db.invitations :
                                                i.email = email /\ ~i.used})
                            \cup {r2.invitation}

(* An invitation was created for an email whose unused invitation of the   *)
(* other kind it replaced: the first invitation is gone, and nothing but   *)
(* CreateInvitation removes invitations here.                              *)
C34_Witness ==
    /\ resp.op = "CreateInvitation"
    /\ resp.status = 201
    /\ fresh.invitation = 3
    /\ Cardinality(db.invitations) = 1
    /\ \E i \in db.invitations :
        i.id = 2 /\ i.email = resp.args[2] /\ i.type = resp.args[3] /\ ~i.used

(* C35 as stated: CreateInvitation of kind list fails with "already a      *)
(* member", creating and deleting no invitation, exactly when a User with  *)
(* the email has a membership row on the list.                             *)
C35_AlreadyMemberIffMember ==
    \A u \in db.users, email \in Addresses, listID \in ListIDs, bytes \in RandomBytes4 :
        LET r == CreateInvitation(db, u.id, email, "list", listID, bytes,
                                  fresh.invitation, now)
            member == \E v \in db.users : \E m \in db.members :
                        v.email = email /\ m.list_id = listID /\ m.user_id = v.id
        IN  /\ member <=> r.err = "user is already a member of this list"
            /\ member => r.db = db

(* C35, amended: when the inviter owns the list, CreateInvitation of kind  *)
(* list fails with "already a member", creating and deleting no            *)
(* invitation, exactly when a User with the email has a membership row on  *)
(* the list; for a user who is not a member and for an email without a     *)
(* User the membership check rejects nothing.  When the inviter does not   *)
(* own the list the call fails with "not the owner" before that check,     *)
(* member or not.                                                          *)
C35_AlreadyMemberForOwnersList ==
    \A u \in db.users, email \in Addresses, listID \in ListIDs, bytes \in RandomBytes4 :
        LET r == CreateInvitation(db, u.id, email, "list", listID, bytes,
                                  fresh.invitation, now)
            member == \E v \in db.users : \E m \in db.members :
                        v.email = email /\ m.list_id = listID /\ m.user_id = v.id
            owner == \E m \in db.members :
                        m.list_id = listID /\ m.user_id = u.id /\ m.role = "owner"
        IN  /\ (owner /\ member) <=> r.err = "user is already a member of this list"
            /\ (owner /\ member) => r.db = db
            /\ ~owner => r.err = "user is not the owner of this list" /\ r.db = db
            /\ (owner /\ ~member) =>
                r.err \in {NoErr, "user is already invited",
                           "UNIQUE constraint failed: invitations.code"}

(* A list owner invited a user who is on the list already. *)
C35_Witness ==
    /\ resp.op = "CreateInvitation"
    /\ resp.status = 400
    /\ resp.err = "user is already a member of this list"
    /\ resp.args[3] = "list"
    /\ \E v \in db.users : \E m \in db.members :
        v.email = resp.args[2] /\ m.list_id = resp.args[4] /\ m.user_id = v.id
    /\ \E m \in db.members :
        m.list_id = resp.args[4] /\ m.user_id = resp.args[1] /\ m.role = "owner"

(* C37: once an unused invitation of kind K for E has expired, a           *)
(* CreateInvitation of kind K for E whose other checks pass succeeds, with *)
(* no RevokeInvitation in between.                                         *)
C37_ExpiredInvitationDoesNotBlock ==
    \A u \in db.users, email \in Addresses, invType \in {"server", "list"},
       list \in ListIDs, bytes \in RandomBytes4 :
        LET listID == IF invType = "list" THEN list ELSE NULL
            r == CreateInvitation(db, u.id, email, invType, listID, bytes,
                                  fresh.invitation, now)
            same == {i \in db.invitations :
                        i.email = email /\ ~i.used /\ i.type = invType}
            known == {v \in db.users : v.email = email}
            passes ==
                IF invType = "list"
                THEN /\ \E m \in db.members :
                            m.list_id = listID /\ m.user_id = u.id /\ m.role = "owner"
                     /\ ~\E v \in known : \E m \in db.members :
                            m.list_id = listID /\ m.user_id = v.id
                ELSE known = {}
            taken == \E i \in db.invitations :
                        i.code = SprintfX(bytes) /\ (i.email # email \/ i.used)
        IN  (/\ same # {}
             /\ \A i \in same : ~Unexpired(i)
             /\ passes
             /\ ~taken) => r.err = NoErr

---------------------------------------------------------------------------
(* Properties of login codes, checked under SpecAuth                       *)

(* C36: a RequestCode(E) that returns an error leaves the store unchanged: *)
(* the valid code issued to E before is still stored and still matches a   *)
(* verification.                                                           *)
C36_FailedRequestKeepsOldCode ==
    \A email \in Emails, bytes \in RandomBytes3 :
        LET r == CreateMagicLink(db, email, bytes, now)
        IN  r.err # NoErr =>
                /\ r.db = db
                /\ \A m \in db.magic_links :
                    (m.email = email /\ ~m.used /\ Unexpired(m)) =>
                        \E k \in r.db.magic_links :
                            /\ k.email = email /\ k.code = m.code
                            /\ ~k.used /\ Unexpired(k)

(* C38: VerifyCode(E, C) succeeds only if the row stored for E holds the   *)
(* code C, unused and unexpired; a code is stored for one email only; the  *)
(* rows of E change only in a RequestCode(E), which leaves at most the row *)
(* of the code it generated, and in a VerifyCode(E, C), which marks the    *)
(* row of C used.  So the code that verifies for E is the one the most     *)
(* recent RequestCode(E) returned, and a RequestCode for another email     *)
(* neither deletes nor changes it.                                         *)
C38_OnlyTheLatestCodeOfTheEmail ==
    /\ [](\A email \in Emails, code \in Codes :
            /\ (\E r \in VerifyMagicLinkWithInvitation(db, email, code, now, fresh.user) :
                    r.err = NoErr) =>
                    \E m \in db.magic_links :
                        m.email = email /\ m.code = code /\ ~m.used /\ Unexpired(m)
            /\ Cardinality({m \in db.magic_links : m.email = email}) <= 1
            /\ Cardinality({m \in db.magic_links : m.code = code}) <= 1)
    /\ [][\A email \in Emails :
            LET before == {m \in db.magic_links : m.email = email}
                after == {m \in db'.magic_links : m.email = email}
            IN  after # before =>
                    /\ resp'.op \in {"RequestLogin", "VerifyLogin"}
                    /\ resp'.args[1] = email
                    /\ resp'.op = "RequestLogin" =>
                        after \subseteq
                            {[code |-> resp'.args[2], email |-> email,
                              expires_at |-> now + MagicLinkTTL, used |-> FALSE]}
                    /\ resp'.op = "VerifyLogin" =>
                        after = {[m EXCEPT !.used = TRUE] : m \in before}
                            /\ \A m \in before : m.code = resp'.args[2]
      ]_vars

(* A code verified for its email while an unused code of another email is  *)
(* stored, which was requested later and left the verified one in place.   *)
C38_Witness ==
    /\ resp.op = "VerifyLogin"
    /\ resp.status = 200
    /\ \E m \in db.magic_links, k \in db.magic_links :
        /\ m.email = resp.args[1] /\ m.code = resp.args[2] /\ m.used
        /\ k.email # m.email /\ ~k.used /\ k.code # m.code
        /\ k.expires_at >= m.expires_at

---------------------------------------------------------------------------
(* Properties of GenerateCode, checked under SpecCodes                     *)

(* C39: GenerateCode returns exactly 6 decimal digits for every value of   *)
(* its 3 random bytes, and every code is produced by the same number of    *)
(* 3-byte values: the code of the value 1 by as many of the 2^24 values as *)
(* the code of the value 100000.                                           *)
C39_SixDigitsUniform ==
    resp.op = "GenerateCode" =>
        /\ Len(resp.args[2]) = 6
        /\ \A k \in 1..6 : resp.args[2][k] \in 0..9
        /\ resp.args[1] = <<0, 0, 1>> =>
            LET low == resp.args[2]
                high == GenerateCode(<<1, 134, 160>>)
                inputs == {v \in 0..(256 * 256 * 256 - 1) :
                            LET code == GenerateCode(<<v \div 65536, (v \div 256) % 256,
                                                       v % 256>>)
                            IN  code = low \/ code = high}
            IN  Cardinality({v \in inputs :
                    GenerateCode(<<v \div 65536, (v \div 256) % 256, v % 256>>) = low})
                = Cardinality({v \in inputs :
                    GenerateCode(<<v \div 65536, (v \div 256) % 256, v % 256>>) = high})

====
